---- MODULE Spec2Model ----
(***************************************************************************)
(* Trade-log assistant: the conversation orchestrator (POST /api/chat of   *)
(* the Express server and the serverless handler), the ledger client       *)
(* (appendTradeRow / readTrades over a sheet store) and the bounded chat   *)
(* history.  Every await of the handlers is one step of the model.         *)
(***************************************************************************)
EXTENDS Integers, Sequences, FiniteSets, TLC

VARIABLES
    impl,         \* which handler is deployed: "server" (index.ts) or "api" (chat.ts)
    env,          \* process.env: [openaiKey, linkupKey : BOOLEAN]
    chatHistory,  \* the module-level chatHistory array
    pushed,       \* ghost: every entry ever handed to pushHistory, in order
    header,       \* the sheet's header row (row headerRow), a sequence of cell texts
    data,         \* the sheet's rows from dataStartRow down to the last non-empty one
    grid,         \* gridProperties of the sheet: [rowCount, columnCount]
    sheetId,      \* properties.sheetId of the sheet titled config.sheetName
    turns,        \* number of requests received so far
    sharedTools,  \* the object the module-level const defaultTools is bound to
    req           \* per request slot: the handler's locals and its position

vars ==
    <<impl, env, chatHistory, pushed, header, data, grid, sheetId, turns,
      sharedTools, req>>

----------------------------------------------------------------------------
(* Bounds of the model *)

MaxRequests == 2     \* requests handled in one behaviour of Spec
MaxPushes == 23      \* pushHistory calls in one behaviour of SpecHistory
MaxCalls == 2        \* ledger-client calls in one behaviour of SpecLedger
MaxAppends == 3      \* appendTradeRow calls in one behaviour of SpecCapacity

(* Program constants *)

MAX_HISTORY == 20
headerRow == 7
dataStartRow == 8
CapacityBuffer == 10

----------------------------------------------------------------------------
(* Generic helpers *)

Max(a, b) == IF a >= b THEN a ELSE b

Min(a, b) == IF a <= b THEN a ELSE b

Range(s) == {s[i] : i \in 1..Len(s)}

----------------------------------------------------------------------------
(* config: the trade-log configuration *)

Fields ==
    <<"date", "transactionType", "symbol", "quantity", "amountPerUnit",
      "totalAmount", "tradingFees", "investmentAccount">>

columns ==
    [date              |-> "Date (MM-DD-YYYY)",
     transactionType   |-> "Transaction Type",
     symbol            |-> "Stock / ETF Symbol",
     quantity          |-> "Quantity of Units",
     amountPerUnit     |-> "Amount per unit",
     totalAmount       |-> "Total Amount (before trading fees)",
     tradingFees       |-> "Trading Fees",
     investmentAccount |-> "Investment Account"]

defaultTools == [status |-> "skipped", results |-> 0]

----------------------------------------------------------------------------
(* Chat history *)

\* pushHistory with the eviction at the wrong end: the newest entries go
pushHistory_evictsNewest(h, entry) ==
    LET a == Append(h, entry)
    IN  IF Len(a) > MAX_HISTORY THEN SubSeq(a, 1, MAX_HISTORY) ELSE a

pushHistory(h, entry) ==
    LET a == Append(h, entry)
    IN  IF Len(a) > MAX_HISTORY
        THEN SubSeq(a, (Len(a) - MAX_HISTORY) + 1, Len(a))
        ELSE a

----------------------------------------------------------------------------
(* Strings *)

Char(s, i) == SubSeq(s, i, i)

\* String.prototype.includes
Includes(s, sub) ==
    \E i \in 1..((Len(s) - Len(sub)) + 1) : SubSeq(s, i, (i + Len(sub)) - 1) = sub

\* String.prototype.indexOf for one character, 1-based; 0 when absent
RECURSIVE indexFrom(_, _, _)
indexFrom(s, c, i) ==
    IF i > Len(s) THEN 0
    ELSE IF Char(s, i) = c THEN i
    ELSE indexFrom(s, c, i + 1)

IndexOf(s, c) == indexFrom(s, c, 1)

\* String.prototype.trim (the texts of the model hold no other white space)
RECURSIVE firstSolid(_, _)
firstSolid(s, i) ==
    IF i > Len(s) \/ Char(s, i) # " " THEN i ELSE firstSolid(s, i + 1)

RECURSIVE lastSolid(_, _)
lastSolid(s, i) ==
    IF i < 1 \/ Char(s, i) # " " THEN i ELSE lastSolid(s, i - 1)

trim(s) == SubSeq(s, firstSolid(s, 1), lastSolid(s, Len(s)))

UpperLetters == "ABCDEFGHIJKLMNOPQRSTUVWXYZ"

LowerLetters == "abcdefghijklmnopqrstuvwxyz"

\* character -> character tables of the two case conversions
lowerOf ==
    [c \in {Char(UpperLetters, i) : i \in 1..Len(UpperLetters)} |->
        Char(LowerLetters, IndexOf(UpperLetters, c))]

upperOf ==
    [c \in {Char(LowerLetters, i) : i \in 1..Len(LowerLetters)} |->
        Char(UpperLetters, IndexOf(LowerLetters, c))]

RECURSIVE mapFrom(_, _, _)
mapFrom(s, table, i) ==
    IF i > Len(s) THEN ""
    ELSE (IF Char(s, i) \in DOMAIN table THEN table[Char(s, i)] ELSE Char(s, i))
         \o mapFrom(s, table, i + 1)

toLowerCase(s) == mapFrom(s, lowerOf, 1)

toUpperCase(s) == mapFrom(s, upperOf, 1)

\* the characters of s that occur in keep, in order
RECURSIVE keepFrom(_, _, _)
keepFrom(s, keep, i) ==
    IF i > Len(s) THEN ""
    ELSE (IF Char(s, i) \in keep THEN Char(s, i) ELSE "") \o keepFrom(s, keep, i + 1)

Digits == {"0", "1", "2", "3", "4", "5", "6", "7", "8", "9"}

DigitValue(c) == IndexOf("0123456789", c) - 1

\* the value of a string of decimal digits
RECURSIVE digitsFrom(_, _, _)
digitsFrom(s, i, acc) ==
    IF i > Len(s) THEN acc
    ELSE digitsFrom(s, i + 1, (10 * acc) + DigitValue(Char(s, i)))

DigitsValue(s) == digitsFrom(s, 1, 0)

\* Number(text) for a text over digits, "." and "-": [finite, value].  The
\* model's numbers are integers: a fraction that is not all zeros is outside
\* its domain (no message or trade of the model carries one).
Number(text) ==
    LET neg   == Len(text) > 0 /\ Char(text, 1) = "-"
        body  == IF neg THEN Tail(text) ELSE text
        dot   == IndexOf(body, ".")
        whole == IF dot = 0 THEN body ELSE SubSeq(body, 1, dot - 1)
        frac  == IF dot = 0 THEN "" ELSE SubSeq(body, dot + 1, Len(body))
        wellFormed ==
            /\ keepFrom(whole, Digits, 1) = whole
            /\ keepFrom(frac, Digits, 1) = frac
            /\ Len(whole) + Len(frac) > 0
    IN  IF text = "" THEN [finite |-> TRUE, value |-> 0]
        ELSE IF ~wellFormed THEN [finite |-> FALSE, value |-> 0]
        ELSE [finite |-> TRUE,
              value  |-> IF neg THEN 0 - DigitsValue(whole) ELSE DigitsValue(whole)]

parseMoney(value) ==
    LET parsed == Number(keepFrom(value, Digits \cup {".", "-"}, 1))
    IN  IF parsed.finite THEN parsed.value ELSE 0

----------------------------------------------------------------------------
(* Errors.  An error is the text of its message; "" stands for no error.    *)

AuthMarkers ==
    {"Missing OPENAI_API_KEY", "Incorrect API key", "invalid_api_key",
     "API key expired", "API_KEY_INVALID"}

ErrMissingKey == "Missing OPENAI_API_KEY"

ErrBadKey == "401 Incorrect API key provided: sk-x. You can find your API key at https://platform.openai.com/account/api-keys."

ErrConnection == "Connection error."

ErrFetch == "fetch failed"

\* what the completion service can answer a call with when it fails
CompletionFailures == {ErrBadKey, ErrConnection}

isLlmAuthError(error) ==
    /\ error # ""
    /\ \E marker \in AuthMarkers : Includes(error, marker)

----------------------------------------------------------------------------
(* Messages.  A message is the sequence of its lines (message.split).       *)

\* the length of the leading run of bullet characters of a line
RECURSIVE bulletRunFrom(_, _)
bulletRunFrom(line, i) ==
    IF i > Len(line) \/ Char(line, i) \notin {"-", "*"} THEN i - 1
    ELSE bulletRunFrom(line, i + 1)

BulletRun(line) == bulletRunFrom(line, 1)

\* line.replace(/\*\*/g, ""): every non-overlapping "**", left to right
RECURSIVE RemoveEmphasis(_)
RemoveEmphasis(line) ==
    IF Len(line) < 2 THEN line
    ELSE IF SubSeq(line, 1, 2) = "**"
    THEN RemoveEmphasis(SubSeq(line, 3, Len(line)))
    ELSE Char(line, 1) \o RemoveEmphasis(Tail(line))

normalizeLine(line) ==
    LET plain == RemoveEmphasis(line)
        n     == BulletRun(plain)
        rest  == SubSeq(plain, n + 1, Len(plain))
    IN  trim(IF n > 0 THEN trim(rest) ELSE rest)

\* line.match(/^([^:]+):\s*(.+)$/) on a normalized line: <<>> when it does
\* not match, else <<label, value>> (match[1], match[2])
matchLine(line) ==
    LET k == IndexOf(line, ":")
    IN  IF k < 2 \/ k = Len(line) THEN <<>>
        ELSE <<SubSeq(line, 1, k - 1), trim(SubSeq(line, k + 1, Len(line)))>>

\* a parsed field is <<>> while undefined and <<v>> once a line has set it
noFields == [f \in Range(Fields) |-> <<>>]

\* the body of lines.forEach in parseManualTrade, for one normalized line
parseLine(fields, line) ==
    LET m     == matchLine(line)
        label == toLowerCase(trim(m[1]))
        value == trim(m[2])
    IN
    IF m = <<>> THEN fields
    ELSE IF Includes(label, "transaction type")
    THEN [fields EXCEPT !.transactionType =
                 <<IF Includes(toLowerCase(value), "sell") THEN "sell" ELSE "buy">>]
    ELSE IF Includes(label, "stock") \/ Includes(label, "symbol")
    THEN [fields EXCEPT !.symbol = <<toUpperCase(value)>>]
    ELSE IF Includes(label, "quantity")
    THEN [fields EXCEPT !.quantity = <<parseMoney(value)>>]
    ELSE IF Includes(label, "amount per unit") \/ Includes(label, "price per unit")
    THEN [fields EXCEPT !.amountPerUnit = <<parseMoney(value)>>]
    ELSE IF Includes(label, "total amount")
    THEN [fields EXCEPT !.totalAmount = <<parseMoney(value)>>]
    ELSE IF Includes(label, "trading fees") \/ label = "fees"
    THEN [fields EXCEPT !.tradingFees = <<parseMoney(value)>>]
    ELSE IF Includes(label, "investment account") \/ label = "account"
    THEN [fields EXCEPT !.investmentAccount = <<value>>]
    ELSE IF label = "date"
    THEN [fields EXCEPT !.date = <<value>>]
    ELSE fields

RECURSIVE parseLines(_, _)
parseLines(fields, lines) ==
    IF lines = <<>> THEN fields
    ELSE LET line == normalizeLine(Head(lines))
         IN  parseLines(IF line = "" THEN fields ELSE parseLine(fields, line),
                        Tail(lines))

parseManualTrade(message) == parseLines(noFields, message)

\* JavaScript falsiness (!x) of a parsed text field and of a parsed number
FalsyText(f) == f = <<>> \/ f[1] = ""

FalsyNumber(f) == f = <<>> \/ f[1] = 0

\* the elements of s whose flag is set, in order
RECURSIVE selectFrom(_, _, _)
selectFrom(s, keep, i) ==
    IF i > Len(s) THEN <<>>
    ELSE (IF keep[i] THEN <<s[i]>> ELSE <<>>) \o selectFrom(s, keep, i + 1)

SelectByFlags(s, keep) == selectFrom(s, keep, 1)

MissingLabels ==
    <<"Transaction Type", "Stock/ETF Symbol", "Quantity of Units",
      "Amount per unit", "Date", "Total Amount (before fees)", "Trading Fees",
      "Investment Account">>

getMissingManualFields(fields) ==
    SelectByFlags(MissingLabels,
        <<FalsyText(fields.transactionType), FalsyText(fields.symbol),
          FalsyNumber(fields.quantity), FalsyNumber(fields.amountPerUnit),
          FalsyText(fields.date), FalsyNumber(fields.totalAmount),
          fields.tradingFees = <<>>, FalsyText(fields.investmentAccount)>>)

\* manualTradePrompt that lists every required field, whatever is missing
manualTradePrompt_listsAll(missing) ==
    [kind |-> "manualTradePrompt", text |-> "Missing: ", missing |-> MissingLabels]

manualTradePrompt(missing) ==
    [kind |-> "manualTradePrompt",
     text |-> IF Len(missing) > 0 THEN "Missing: "
              ELSE "I couldn't parse all required fields. ",
     missing |-> missing]

\* the trade literal built from the parsed fields in the fallback branches
\* (reached only when no field is missing)
manualTrade(fields) ==
    [transactionType   |-> fields.transactionType[1],
     symbol            |-> fields.symbol[1],
     quantity          |-> fields.quantity[1],
     amountPerUnit     |-> fields.amountPerUnit[1],
     totalAmount       |-> IF fields.totalAmount = <<>>
                           THEN fields.quantity[1] * fields.amountPerUnit[1]
                           ELSE fields.totalAmount[1],
     tradingFees       |-> IF fields.tradingFees = <<>>
                           THEN 0 ELSE fields.tradingFees[1],
     investmentAccount |-> fields.investmentAccount[1],
     date              |-> fields.date[1]]

manualTradeConfirmation(trade) ==
    [kind |-> "manualTradeConfirmation",
     text |-> "Logged trade manually:",
     lines |-> <<<<"Transaction Type", trade.transactionType>>,
                 <<"Stock/ETF Symbol", trade.symbol>>,
                 <<"Quantity of Units", ToString(trade.quantity)>>,
                 <<"Amount per unit", ToString(trade.amountPerUnit)>>,
                 <<"Date", trade.date>>,
                 <<"Total Amount (before fees)", ToString(trade.totalAmount)>>,
                 <<"Trading Fees", ToString(trade.tradingFees)>>,
                 <<"Investment Account", trade.investmentAccount>>>>]

shouldUseWebSearch(message) ==
    \E i \in 1..Len(message) :
        LET text == toLowerCase(message[i])
        IN  \/ Includes(text, "price")
            \/ Includes(text, "quote")
            \/ Includes(text, "stock price")
            \/ Includes(text, "current price")
            \/ Includes(text, "market price")

\* the check of the message without the trim
isBlankMessage_untrimmed(message) == \A i \in 1..Len(message) : message[i] = ""

\* String(req.body?.message ?? "").trim() is the empty string
isBlankMessage(message) == \A i \in 1..Len(message) : trim(message[i]) = ""

----------------------------------------------------------------------------
(* Ledger client: pure parts *)

spreadsheetId == "sheet-1"

clientEmail == "svc@example.iam"

sheetName == "Trade Log"

DEFAULT_INVESTMENT_ACCOUNT == "Interactive Brokers (IBKR)"

VALID_TRANSACTION_TYPES ==
    <<"Buy", "Sell", "Dividend", "Split", "Return of capital", "Cost Base Adj.",
      "Reinvested capital gain distribution">>

\* the first valid type equal to the trimmed input up to case, else the input
RECURSIVE matchType(_, _, _)
matchType(trimmed, lowered, i) ==
    IF i > Len(VALID_TRANSACTION_TYPES) THEN trimmed
    ELSE IF toLowerCase(VALID_TRANSACTION_TYPES[i]) = lowered
    THEN VALID_TRANSACTION_TYPES[i]
    ELSE matchType(trimmed, lowered, i + 1)

normalizeTransactionType(input) == matchType(trim(input), toLowerCase(trim(input)), 1)

\* a transport error of the store client: [status, apiStatus, apiMessage, message]
\* (status 0 and "" stand for an absent property)
TransportError(status, apiStatus, apiMessage, message) ==
    [status |-> status, apiStatus |-> apiStatus, apiMessage |-> apiMessage,
     message |-> message]

Raw403 ==
    TransportError(403, "PERMISSION_DENIED", "The caller does not have permission",
                   "The caller does not have permission")

RawNetwork == TransportError(0, "", "", "socket hang up")

\* the failures a store call can end with
TransportFailures == {Raw403}

formatSheetsError(error, action) ==
    IF error.status = 403 \/ error.apiStatus = "PERMISSION_DENIED"
    THEN "Google Sheets permission denied while " \o action \o " for spreadsheet "
         \o spreadsheetId \o ". Share the sheet with the service account "
         \o clientEmail \o "."
    ELSE IF error.status = 404 \/ error.apiStatus = "NOT_FOUND"
    THEN "Google Sheets spreadsheet not found while " \o action
         \o ". Check GOOGLE_SHEETS_SPREADSHEET_ID (" \o spreadsheetId \o ")."
    ELSE IF error.apiMessage # ""
    THEN "Google Sheets error while " \o action \o ": " \o error.apiMessage
    ELSE error.message

\* the error a failed store call throws: index.ts wraps it, chat.ts lets the
\* transport error through
storeError(which, error, action) ==
    IF which = "server" THEN formatSheetsError(error, action) ELSE error.message

\* getHeaderIndex, after the read: header text (trimmed) -> zero-based column;
\* a later column with the same text replaces an earlier one
RECURSIVE indexHeaders(_, _, _)
indexHeaders(headers, i, index) ==
    IF i > Len(headers) THEN index
    ELSE LET h == trim(headers[i])
         IN  indexHeaders(headers, i + 1,
                 IF h = "" THEN index
                 ELSE [k \in DOMAIN index \cup {h} |->
                          IF k = h THEN i - 1 ELSE index[k]])

headerIndexOf(headers) == indexHeaders(headers, 1, <<>>)

ErrNoHeaders(which) ==
    IF which = "server"
    THEN "No matching headers found. Check trade-log.json column names."
    ELSE "No matching headers found. Check column names."

ErrInvalidType(trade) ==
    "Invalid transaction type '" \o trade.transactionType \o "'. Use one of: "
    \o "Buy, Sell, Dividend, Split, Return of capital, Cost Base Adj., "
    \o "Reinvested capital gain distribution."

\* the values of a numeric field: the integers, and four reserved values that
\* stand for undefined, NaN, Infinity and -Infinity
Undefined == -2147480001
NotANumber == -2147480002
Infinity == -2147480003
NegativeInfinity == -2147480004

\* Number.isFinite(value)
isFinite(value) == value \notin {Undefined, NotANumber, Infinity, NegativeInfinity}

\* a * b
jsTimes(a, b) ==
    LET sign(x) == IF x = Infinity THEN 1 ELSE IF x = NegativeInfinity THEN 0 - 1
                   ELSE IF x > 0 THEN 1 ELSE IF x < 0 THEN 0 - 1 ELSE 0
    IN  IF a \in {Undefined, NotANumber} \/ b \in {Undefined, NotANumber} THEN NotANumber
        ELSE IF isFinite(a) /\ isFinite(b) THEN a * b
        ELSE IF sign(a) * sign(b) = 0 THEN NotANumber
        ELSE IF sign(a) * sign(b) > 0 THEN Infinity
        ELSE NegativeInfinity

\* value === null || value === undefined ? "" : String(value), of a number
jsString(value) ==
    IF value = Undefined THEN ""
    ELSE IF value = NotANumber THEN "NaN"
    ELSE IF value = Infinity THEN "Infinity"
    ELSE IF value = NegativeInfinity THEN "-Infinity"
    ELSE ToString(value)

\* the total without the test for 0: a finite total is kept as it is
totalAmountOf_keepsZero(trade) ==
    IF isFinite(trade.totalAmount) THEN trade.totalAmount
    ELSE jsTimes(trade.quantity, trade.amountPerUnit)

\* const totalAmount of buildRow
totalAmountOf(trade) ==
    IF isFinite(trade.totalAmount) /\ trade.totalAmount # 0 THEN trade.totalAmount
    ELSE jsTimes(trade.quantity, trade.amountPerUnit)

\* the entries array of buildRow: <<header, String(value)>> per logical field
rowEntries(trade) ==
    <<<<columns.date, trade.date>>,
      <<columns.transactionType,
        normalizeTransactionType(trade.transactionType)>>,
      <<columns.symbol, trade.symbol>>,
      <<columns.quantity, jsString(trade.quantity)>>,
      <<columns.amountPerUnit, jsString(trade.amountPerUnit)>>,
      <<columns.totalAmount, jsString(totalAmountOf(trade))>>,
      <<columns.tradingFees, jsString(trade.tradingFees)>>,
      <<columns.investmentAccount, DEFAULT_INVESTMENT_ACCOUNT>>>>

\* the row buildRow fills from its entries: [error, row]
rowFrom(which, entries, headerIndex) ==
    LET resolved == {i \in 1..Len(entries) : entries[i][1] \in DOMAIN headerIndex}
        indices  == {headerIndex[entries[i][1]] : i \in resolved}
        maxIndex == CHOOSE m \in indices : \A k \in indices : k <= m
        cell(c)  == LET at == {i \in resolved : headerIndex[entries[i][1]] = c}
                    IN  IF at = {} THEN ""
                        ELSE entries[CHOOSE i \in at : \A j \in at : j <= i][2]
    IN  IF indices = {}
        THEN [error |-> ErrNoHeaders(which), row |-> <<>>]
        ELSE [error |-> "", row |-> [c \in 1..(maxIndex + 1) |-> cell(c - 1)]]

\* buildRow: [error, row], error "" when the row was built
buildRow(which, trade, headerIndex) ==
    IF /\ which = "server"
       /\ normalizeTransactionType(trade.transactionType) \notin Range(VALID_TRANSACTION_TYPES)
    THEN [error |-> ErrInvalidType(trade), row |-> <<>>]
    ELSE rowFrom(which, rowEntries(trade), headerIndex)

\* isBlankRow without the trim: a cell of white space makes the row non-blank
isBlankRow_untrimmed(existingRow) ==
    ~(\E c \in 1..Len(existingRow) : existingRow[c] # "")

\* !existingRow?.some((cell) => String(cell ?? "").trim())
isBlankRow(existingRow) ==
    ~(\E c \in 1..Len(existingRow) : trim(existingRow[c]) # "")

\* rows.findIndex(isBlankRow), zero-based; -1 when no row is blank
RECURSIVE findIndexFrom(_, _)
findIndexFrom(rows, i) ==
    IF i > Len(rows) THEN 0 - 1
    ELSE IF isBlankRow(rows[i]) THEN i - 1
    ELSE findIndexFrom(rows, i + 1)

firstEmptyIndexOf(rows) == findIndexFrom(rows, 1)

\* the target row without the scan for a blank row: always after the last row
targetRowOf_appendsAtEnd(rows) == dataStartRow + Len(rows)

targetRowOf(rows) ==
    LET firstEmptyIndex == firstEmptyIndexOf(rows)
    IN  dataStartRow + (IF firstEmptyIndex = 0 - 1 THEN Len(rows) ELSE firstEmptyIndex)

\* ensureSheetCapacity, after the metadata read: the grid size it asks for
targetRowsOf(which, rowCount, minRows) ==
    IF which = "server" THEN Max(rowCount, minRows)
    ELSE Max(rowCount, minRows + CapacityBuffer)

targetColumnsOf(columnCount, minColumns) == Max(columnCount, minColumns)

ErrSheetNotFound ==
    "Sheet '" \o sheetName \o "' not found in spreadsheet " \o spreadsheetId \o "."

----------------------------------------------------------------------------
(* The sheet store (the backing service, as the ledger client sees it) *)

\* values.get of a row range: rows down to the last one holding a non-empty
\* cell, each without its trailing empty cells
RECURSIVE dropTrailingEmpty(_)
dropTrailingEmpty(cells) ==
    IF cells = <<>> \/ cells[Len(cells)] # "" THEN cells
    ELSE dropTrailingEmpty(SubSeq(cells, 1, Len(cells) - 1))

RECURSIVE dropTrailingRows(_)
dropTrailingRows(rows) ==
    IF rows = <<>> \/ rows[Len(rows)] # <<>> THEN rows
    ELSE dropTrailingRows(SubSeq(rows, 1, Len(rows) - 1))

valuesGet(rows) ==
    dropTrailingRows([i \in 1..Len(rows) |-> dropTrailingEmpty(rows[i])])

\* a write that inserts the row at targetRow and moves the rows below it down
valuesUpdate_inserts(rows, targetRow, row) ==
    LET at == (targetRow - dataStartRow) + 1
    IN  IF at > Len(rows)
        THEN [i \in 1..at |-> IF i = at THEN row ELSE IF i <= Len(rows) THEN rows[i] ELSE <<>>]
        ELSE SubSeq(rows, 1, at - 1) \o <<row>> \o SubSeq(rows, at, Len(rows))

\* values.update of one row at targetRow, column A: the cells of the row
\* replace those of the sheet, cells to their right stay
valuesUpdate(rows, targetRow, row) ==
    LET at  == (targetRow - dataStartRow) + 1
        old == IF at <= Len(rows) THEN rows[at] ELSE <<>>
        new == [c \in 1..Max(Len(old), Len(row)) |->
                   IF c <= Len(row) THEN row[c] ELSE old[c]]
    IN  [i \in 1..Max(Len(rows), at) |->
            IF i = at THEN new ELSE IF i <= Len(rows) THEN rows[i] ELSE <<>>]

ErrGridLimits == "Range exceeds grid limits."

----------------------------------------------------------------------------
(* readTrades and summarizeTrades: pure parts *)

\* a projection that leaves out the rows without a cell
projectRows_skipsEmpty(headerIndex, rows) ==
    LET kept == SelectSeq(rows, LAMBDA row : row # <<>>)
    IN  [i \in 1..Len(kept) |->
            [h \in DOMAIN headerIndex |->
                IF headerIndex[h] + 1 <= Len(kept[i]) THEN kept[i][headerIndex[h] + 1]
                ELSE ""]]

\* rows.map of readTrades: one header -> text mapping per row
projectRows(headerIndex, rows) ==
    [i \in 1..Len(rows) |->
        [h \in DOMAIN headerIndex |->
            IF headerIndex[h] + 1 <= Len(rows[i]) THEN rows[i][headerIndex[h] + 1]
            ELSE ""]]

\* row[key] ?? fallback
cellOr(row, key, fallback) == IF key \in DOMAIN row THEN row[key] ELSE fallback

cellOf(row, key) == cellOr(row, key, "")

\* a query of summarizeTrades; "" stands for a null or absent field
Query(symbol, startDate, endDate) ==
    [symbol |-> symbol, startDate |-> startDate, endDate |-> endDate]

NoQuery == Query("", "", "")

isDigits(s) == s # "" /\ keepFrom(s, Digits, 1) = s

\* the instant of a calendar date at 00:00 of a zone utcOffset hours ahead of
\* UTC, in hours on a scale that keeps the order of getTime() (the dates of
\* the model are days that exist)
instantOf(year, month, day, utcOffset) ==
    ((((year * 12) + (month - 1)) * 31 + (day - 1)) * 24) - utcOffset

NoDate == [ok |-> FALSE, time |-> 0]

\* parseDate, with new Date(value) as the runtime of the program computes it:
\* YYYY-MM-DD is a date-only ISO form and is read as UTC; MM-DD-YYYY is read
\* by the fallback parser as local time; no other text of the model is a date
parseDate(value, utcOffset) ==
    LET part(a, b) == SubSeq(value, a, b)
        dashed(a, b) == Char(value, a) = "-" /\ Char(value, b) = "-"
        dated(y, m, d, offset) ==
            IF /\ isDigits(y) /\ isDigits(m) /\ isDigits(d)
               /\ DigitsValue(m) \in 1..12 /\ DigitsValue(d) \in 1..31
            THEN [ok |-> TRUE,
                  time |-> instantOf(DigitsValue(y), DigitsValue(m), DigitsValue(d), offset)]
            ELSE NoDate
    IN  IF Len(value) # 10 THEN NoDate
        ELSE IF dashed(5, 8) THEN dated(part(1, 4), part(6, 7), part(9, 10), 0)
        ELSE IF dashed(3, 6) THEN dated(part(7, 10), part(1, 2), part(4, 5), utcOffset)
        ELSE NoDate

\* the callback of rows.filter in summarizeTrades
keepsRow(row, query, utcOffset) ==
    LET rowDate == parseDate(cellOf(row, columns.date), utcOffset)
        start   == parseDate(query.startDate, utcOffset)
        end     == parseDate(query.endDate, utcOffset)
    IN  /\ \E h \in DOMAIN row : trim(row[h]) # ""
        /\ query.symbol # "" =>
               toUpperCase(cellOf(row, columns.symbol)) = toUpperCase(query.symbol)
        /\ (query.startDate # "" \/ query.endDate # "") =>
               /\ rowDate.ok
               /\ ~(start.ok /\ rowDate.time < start.time)
               /\ ~(end.ok /\ rowDate.time > end.time)

startsWith(s, prefix) == Len(prefix) <= Len(s) /\ SubSeq(s, 1, Len(prefix)) = prefix

twoDigits(n) == IF n < 10 THEN "0" \o ToString(n) ELSE ToString(n)

\* two decimal places by cutting off the rest
toFixed2_truncates(value, quantity) ==
    LET magnitude == IF value < 0 THEN 0 - value ELSE value
        hundredths == (100 * magnitude) \div quantity
        text == ToString(hundredths \div 100) \o "." \o twoDigits(hundredths % 100)
    IN  IF value < 0 /\ hundredths > 0 THEN "-" \o text ELSE text

\* (value / quantity).toFixed(2) for quantity > 0: the nearest number of
\* hundredths, the larger one of two that are equally near (the quotients of
\* the model that lie halfway are binary fractions)
toFixed2(value, quantity) ==
    LET magnitude == IF value < 0 THEN 0 - value ELSE value
        hundredths == ((200 * magnitude) + quantity) \div (2 * quantity)
        text == ToString(hundredths \div 100) \o "." \o twoDigits(hundredths % 100)
    IN  IF value < 0 /\ hundredths > 0 THEN "-" \o text ELSE text

\* the entry of summarizeTrades for a symbol that has none yet
newEntry(symbol) ==
    [symbol |-> symbol, buyQty |-> 0, buyValue |-> 0, sellQty |-> 0, sellValue |-> 0,
     otherCount |-> 0, otherTypes |-> <<>>]

\* the callback with the side compared as it is spelled in the sheet
addRow_caseSensitive(entry, row) ==
    LET rawSide == trim(cellOf(row, columns.transactionType))
        qty == parseMoney(cellOf(row, columns.quantity))
        amountPerUnit == parseMoney(cellOf(row, columns.amountPerUnit))
        parsedTotal == parseMoney(cellOf(row, columns.totalAmount))
        totalAmount == IF parsedTotal # 0 THEN parsedTotal ELSE amountPerUnit * qty
    IN  IF startsWith(rawSide, "buy")
        THEN [entry EXCEPT !.buyQty = @ + qty, !.buyValue = @ + totalAmount]
        ELSE IF startsWith(rawSide, "sell")
        THEN [entry EXCEPT !.sellQty = @ + qty, !.sellValue = @ + totalAmount]
        ELSE entry

\* the callback of filtered.forEach: the entry of the row's symbol with the
\* row added to it
addRow(entry, row) ==
    LET added(rawSide, qty, totalAmount, otherType) ==
            IF startsWith(rawSide, "buy")
            THEN [entry EXCEPT !.buyQty = @ + qty, !.buyValue = @ + totalAmount]
            ELSE IF startsWith(rawSide, "sell")
            THEN [entry EXCEPT !.sellQty = @ + qty, !.sellValue = @ + totalAmount]
            ELSE IF rawSide # ""
            THEN [entry EXCEPT !.otherCount = @ + 1,
                               !.otherTypes = IF otherType \in Range(@) THEN @
                                              ELSE Append(@, otherType)]
            ELSE entry
        priced(qty, amountPerUnit, parsedTotal) ==
            added(toLowerCase(trim(cellOf(row, columns.transactionType))), qty,
                  IF parsedTotal # 0 THEN parsedTotal ELSE amountPerUnit * qty,
                  cellOr(row, columns.transactionType, "Other"))
    IN  priced(parseMoney(cellOf(row, columns.quantity)),
               parseMoney(cellOf(row, columns.amountPerUnit)),
               parseMoney(cellOf(row, columns.totalAmount)))

\* a grouping that puts the entry of a new symbol in front of the others
RECURSIVE groupFrom_newestFirst(_, _, _)
groupFrom_newestFirst(filtered, i, entries) ==
    IF i > Len(filtered) THEN entries
    ELSE LET symbol == toUpperCase(cellOr(filtered[i], columns.symbol, "UNKNOWN"))
             at == {k \in 1..Len(entries) : entries[k].symbol = symbol}
         IN  groupFrom_newestFirst(filtered, i + 1,
                 IF at = {} THEN <<addRow(newEntry(symbol), filtered[i])>> \o entries
                 ELSE [k \in 1..Len(entries) |->
                          IF k \in at THEN addRow(entries[k], filtered[i])
                          ELSE entries[k]])

\* the Map of summarizeTrades after the rows from the i-th on: its entries in
\* insertion order
RECURSIVE groupFrom(_, _, _)
groupFrom(filtered, i, entries) ==
    IF i > Len(filtered) THEN entries
    ELSE LET symbol == toUpperCase(cellOr(filtered[i], columns.symbol, "UNKNOWN"))
             at == {k \in 1..Len(entries) : entries[k].symbol = symbol}
         IN  groupFrom(filtered, i + 1,
                 IF at = {} THEN Append(entries, addRow(newEntry(symbol), filtered[i]))
                 ELSE [k \in 1..Len(entries) |->
                          IF k \in at THEN addRow(entries[k], filtered[i])
                          ELSE entries[k]])

RECURSIVE joinFrom(_, _, _)
joinFrom(texts, separator, i) ==
    IF i > Len(texts) THEN ""
    ELSE (IF i > 1 THEN separator ELSE "") \o texts[i] \o joinFrom(texts, separator, i + 1)

\* Array.prototype.join
join(texts, separator) == joinFrom(texts, separator, 1)

\* the line of one symbol; only index.ts counts the rows of other types
summaryLine(which, entry) ==
    LET buyAvg == IF entry.buyQty > 0 THEN toFixed2(entry.buyValue, entry.buyQty)
                  ELSE "0.00"
        sellAvg == IF entry.sellQty > 0 THEN toFixed2(entry.sellValue, entry.sellQty)
                   ELSE "0.00"
        extras == IF which = "server" /\ entry.otherCount > 0
                  THEN ", other " \o ToString(entry.otherCount) \o " ("
                       \o join(entry.otherTypes, ", ") \o ")"
                  ELSE ""
    IN  [symbol |-> entry.symbol, buyQty |-> entry.buyQty, buyValue |-> entry.buyValue,
         sellQty |-> entry.sellQty, sellValue |-> entry.sellValue,
         buyAvg |-> buyAvg, sellAvg |-> sellAvg,
         text |-> entry.symbol \o ": buy " \o ToString(entry.buyQty) \o " @ avg "
                  \o buyAvg \o ", sell " \o ToString(entry.sellQty) \o " @ avg "
                  \o sellAvg \o extras]

\* summarizeTrades: the text it returns, with the filtered rows, their number
\* and the per-symbol lines the text is made of
summarizeTrades(which, rows, query, utcOffset) ==
    LET summary(filtered, lines) ==
            IF filtered = <<>>
            THEN [text |-> "No trades found for that filter.", total |-> 0,
                  filtered |-> filtered, lines |-> <<>>]
            ELSE [text |-> "Total trades: " \o ToString(Len(filtered)) \o ".\n"
                           \o join([k \in 1..Len(lines) |-> lines[k].text], "\n"),
                  total |-> Len(filtered), filtered |-> filtered, lines |-> lines]
        linesOf(entries) == [k \in 1..Len(entries) |-> summaryLine(which, entries[k])]
        grouped(filtered) == summary(filtered, linesOf(groupFrom(filtered, 1, <<>>)))
    IN  grouped(SelectSeq(rows, LAMBDA row : keepsRow(row, query, utcOffset)))

----------------------------------------------------------------------------
(* Inputs of the model *)

Procs == {"p1", "p2"}

\* the request slots Spec uses: one request at a time
SeqProcs == {"p1"}

MsgManualFull ==
    <<"- Transaction Type: buy", "- Stock/ETF Symbol: SPUS",
      "- Quantity of Units: 10", "- Amount per unit: 55.00",
      "- Date: 01-20-2026", "- Total Amount (before fees): 550.00",
      "- Trading Fees: 0", "- Investment Account: Brokerage 1">>

\* the template with "Price per unit" for "Amount per unit"
MsgManualPrice ==
    <<"- Transaction Type: sell", "- Stock/ETF Symbol: spus",
      "- Quantity of Units: 5", "- Price per unit: $55",
      "- Date: 01-21-2026", "- Total Amount (before fees): 275",
      "- Trading Fees: 1", "- Investment Account: Brokerage 1">>

MsgManualPartial ==
    <<"Transaction Type: buy", "Stock/ETF Symbol: SPUS", "Quantity of Units: 10",
      "Amount per unit: 55.00", "Investment Account: Brokerage 1">>

MsgPrice == <<"current price of AAPL">>

MsgBlank == <<"  ">>

\* a body without a message: String(req.body?.message ?? "") is ""
MsgEmpty == <<"">>

Messages ==
    {MsgManualFull, MsgManualPrice, MsgManualPartial, MsgPrice, MsgBlank, MsgEmpty}

TradeAAPL ==
    [date |-> "01-20-2026", transactionType |-> "buy", symbol |-> "AAPL",
     quantity |-> 10, amountPerUnit |-> 192, totalAmount |-> 0,
     tradingFees |-> 1, investmentAccount |-> "Brokerage 1"]

NoTrade ==
    [date |-> "", transactionType |-> "", symbol |-> "", quantity |-> 0,
     amountPerUnit |-> 0, totalAmount |-> 0, tradingFees |-> 0,
     investmentAccount |-> ""]

\* what interpretMessage can return: the parsed response, trade and summary
\* as <<>> (null or absent) or <<value>>
Resolved(action, trade, summary) ==
    [action |-> action, trade |-> trade, summary |-> summary]

ResolvedActions ==
    {Resolved("log_trade", <<TradeAAPL>>, <<>>),
     Resolved("log_trade", <<>>, <<>>),
     Resolved("summarize", <<>>, <<Query("aapl", "", "")>>),
     Resolved("summarize", <<>>, <<>>),
     Resolved("unknown", <<>>, <<>>)}

NoAction == Resolved("", <<>>, <<>>)

----------------------------------------------------------------------------
(* interpretMessage: from the completion text to the resolved action *)

\* String.prototype.lastIndexOf for one character, 1-based; 0 when absent
RECURSIVE lastIndexFrom(_, _, _)
lastIndexFrom(s, c, i) ==
    IF i < 1 THEN 0
    ELSE IF Char(s, i) = c THEN i
    ELSE lastIndexFrom(s, c, i - 1)

\* extractJson: the slice from the first "{" to the last "}", or "" for null
\* (the slice itself is never empty, and the caller only tests truthiness)
extractJson(text) ==
    LET start == IndexOf(text, "{")
        end   == lastIndexFrom(text, "}", Len(text))
    IN  IF start = 0 \/ end = 0 \/ end <= start THEN ""
        ELSE SubSeq(text, start, end)

\* JSON values
JUndefined == [type |-> "undefined"]

JNull == [type |-> "null"]

JBoolean(b) == [type |-> "boolean", boolean |-> b]

JString(s) == [type |-> "string", string |-> s]

JNumber(n) == [type |-> "number", number |-> n]

JObject(members) == [type |-> "object", members |-> members]

NoParse == [ok |-> FALSE, value |-> JUndefined, next |-> 0]

Parsed(value, next) == [ok |-> TRUE, value |-> value, next |-> next]

RECURSIVE skipSpace(_, _)
skipSpace(text, i) ==
    IF i > Len(text) \/ Char(text, i) # " " THEN i ELSE skipSpace(text, i + 1)

RECURSIVE digitsEnd(_, _)
digitsEnd(text, i) ==
    IF i > Len(text) \/ Char(text, i) \notin Digits THEN i ELSE digitsEnd(text, i + 1)

literalAt(text, i, literal) ==
    /\ (i + Len(literal)) - 1 <= Len(text)
    /\ SubSeq(text, i, (i + Len(literal)) - 1) = literal

\* a string token at i (the strings of the model hold no escapes)
stringToken(text, i) ==
    LET close == indexFrom(text, "\"", i + 1)
    IN  IF i > Len(text) \/ Char(text, i) # "\"" \/ close = 0 THEN NoParse
        ELSE Parsed(JString(SubSeq(text, i + 1, close - 1)), close + 1)

\* a number token at i (the numbers of the model are whole)
numberToken(text, i) ==
    LET from == IF Char(text, i) = "-" THEN i + 1 ELSE i
        to   == digitsEnd(text, from)
        n    == DigitsValue(SubSeq(text, from, to - 1))
    IN  IF to = from THEN NoParse
        ELSE Parsed(JNumber(IF from > i THEN 0 - n ELSE n), to)

RECURSIVE parseValue(_, _)
RECURSIVE parseMembers(_, _, _)

\* JSON.parse of the value that starts at i: [ok, value, next]
parseValue(text, i) ==
    IF i > Len(text) THEN NoParse
    ELSE IF Char(text, i) = "{" THEN
        LET j == skipSpace(text, i + 1)
        IN  IF j <= Len(text) /\ Char(text, j) = "}"
            THEN Parsed(JObject(<<>>), j + 1)
            ELSE parseMembers(text, j, <<>>)
    ELSE IF Char(text, i) = "\"" THEN stringToken(text, i)
    ELSE IF literalAt(text, i, "null") THEN Parsed(JNull, i + 4)
    ELSE IF literalAt(text, i, "true") THEN Parsed(JBoolean(TRUE), i + 4)
    ELSE IF literalAt(text, i, "false") THEN Parsed(JBoolean(FALSE), i + 5)
    ELSE numberToken(text, i)

\* the members of an object from i on: "key": value, then "," or "}"
parseMembers(text, i, members) ==
    LET key   == stringToken(text, i)
        colon == skipSpace(text, key.next)
        value == parseValue(text, skipSpace(text, colon + 1))
        after == skipSpace(text, value.next)
        all   == Append(members, <<key.value.string, value.value>>)
    IN  IF ~key.ok \/ colon > Len(text) \/ Char(text, colon) # ":" THEN NoParse
        ELSE IF ~value.ok \/ after > Len(text) THEN NoParse
        ELSE IF Char(text, after) = "}" THEN Parsed(JObject(all), after + 1)
        ELSE IF Char(text, after) = "," THEN parseMembers(text, skipSpace(text, after + 1), all)
        ELSE NoParse

\* JSON.parse: [ok, value]; ok is FALSE where JSON.parse throws a SyntaxError
JSONparse(text) ==
    LET parsed == parseValue(text, skipSpace(text, 1))
    IN  IF parsed.ok /\ skipSpace(text, parsed.next) > Len(text) THEN parsed
        ELSE NoParse

\* object[key]: the last member of that name, undefined when there is none
member(object, key) ==
    LET at == {i \in 1..Len(object.members) : object.members[i][1] = key}
    IN  IF at = {} THEN JUndefined
        ELSE object.members[CHOOSE i \in at : \A j \in at : j <= i][2]

nullish(value) == value.type \in {"undefined", "null"}

isString(value) == value.type = "string"

isNumber(value) == value.type = "number"

isEnum(value, options) == isString(value) /\ value.string \in options

TextFields == {"date", "symbol", "investmentAccount"}

NumberFields == {"quantity", "amountPerUnit", "totalAmount", "tradingFees"}

\* responseSchema.trade, the object part
tradeSchema(value) ==
    /\ value.type = "object"
    /\ isEnum(member(value, "transactionType"), {"buy", "sell"})
    /\ \A field \in TextFields : isString(member(value, field))
    /\ \A field \in NumberFields : isNumber(member(value, field))

\* responseSchema.summary, the object part
summarySchema(value) ==
    /\ value.type = "object"
    /\ \A field \in {"symbol", "startDate", "endDate"} :
         nullish(member(value, field)) \/ isString(member(value, field))

stringOr(value, fallback) == IF isString(value) THEN value.string ELSE fallback

\* responseSchema.safeParse(payload): [success, data]
safeParse(payload) ==
    LET action  == member(payload, "action")
        trade   == member(payload, "trade")
        summary == member(payload, "summary")
        success == /\ isEnum(action, {"log_trade", "summarize", "unknown"})
                   /\ nullish(trade) \/ tradeSchema(trade)
                   /\ nullish(summary) \/ summarySchema(summary)
    IN  IF ~success THEN [success |-> FALSE, data |-> NoAction]
        ELSE [success |-> TRUE,
              data |-> Resolved(action.string,
                  IF nullish(trade) THEN <<>>
                  ELSE <<[date              |-> member(trade, "date").string,
                          transactionType   |-> member(trade, "transactionType").string,
                          symbol            |-> member(trade, "symbol").string,
                          quantity          |-> member(trade, "quantity").number,
                          amountPerUnit     |-> member(trade, "amountPerUnit").number,
                          totalAmount       |-> member(trade, "totalAmount").number,
                          tradingFees       |-> member(trade, "tradingFees").number,
                          investmentAccount |-> member(trade, "investmentAccount").string]>>,
                  IF nullish(summary) THEN <<>>
                  ELSE <<Query(stringOr(member(summary, "symbol"), ""),
                               stringOr(member(summary, "startDate"), ""),
                               stringOr(member(summary, "endDate"), ""))>>)]

\* interpretMessage after its completion call returned the text response:
\* extractJson, JSON.parse inside try/catch, safeParse
interpretResponse_rethrows(response) ==
    LET jsonText == extractJson(response)
        parsed   == safeParse(JSONparse(jsonText).value)
    IN  IF jsonText # "" /\ ~JSONparse(jsonText).ok
        THEN [error |-> "SyntaxError", action |-> NoAction]
        ELSE IF jsonText = "" \/ ~parsed.success
        THEN [error |-> "", action |-> Resolved("unknown", <<>>, <<>>)]
        ELSE [error |-> "", action |-> parsed.data]

interpretResponse(response) ==
    LET jsonText == extractJson(response)
        payload  == IF jsonText # "" /\ JSONparse(jsonText).ok
                    THEN JSONparse(jsonText).value
                    ELSE JObject(<<>>)
        parsed   == safeParse(payload)
    IN  IF ~parsed.success
        THEN [error |-> "", action |-> Resolved("unknown", <<>>, <<>>)]
        ELSE [error |-> "", action |-> parsed.data]

StandardHeader ==
    <<"Date (MM-DD-YYYY)", "Transaction Type", "Stock / ETF Symbol",
      "Quantity of Units", "Amount per unit",
      "Total Amount (before trading fees)", "Trading Fees", "Investment Account">>

ForeignHeader == <<"Ticker", "Notes">>

Headers == {StandardHeader, ForeignHeader}

RowAAPL ==
    <<"01-02-2026", "Buy", "AAPL", "1", "190", "190", "0",
      "Interactive Brokers (IBKR)">>

\* the data rows a sheet may start with: none, one trade, a cleared row
\* between two trades, a row of white space above a trade
InitialData ==
    {<<>>, <<RowAAPL>>, <<RowAAPL, <<>>, RowAAPL>>, <<<<" ", "">>, RowAAPL>>}

\* result counts a successful search can return
SearchCounts == {0, 2}

\* what the handler computes from the message text alone, per message
messageFacts ==
    [m \in Messages |->
        [blank  |-> isBlankMessage(m),
         search |-> shouldUseWebSearch(m),
         fields |-> parseManualTrade(m)]]

----------------------------------------------------------------------------
(* The request handlers: app.post("/api/chat") of index.ts ("server") and   *)
(* handler of chat.ts ("api").  A request slot holds the handler's locals;  *)
(* pc is the await it is suspended at.                                      *)

\* the search step of one generateReply call: how it ended, and with how
\* many results
SearchOutcome(kind, results) == [kind |-> kind, results |-> results]

NoSearch == SearchOutcome("", 0)

\* what a call of the search service can end with: fetch throws, a status
\* that is not a success, a body that response.json() cannot decode, or a
\* payload with n results
SearchAnswers ==
    {SearchOutcome(kind, 0) : kind \in {"threw", "not_ok", "undecodable"}}
    \cup {SearchOutcome("ok", n) : n \in SearchCounts}

\* fetchLinkupSearch with the search key set.  chat.ts wraps the call in
\* try/catch and returns {status: "error"}; part_001 lets fetch and
\* response.json() throw.
fetchLinkupSearch_uncaught(which, answer) ==
    [thrown  |-> answer.kind \in {"threw", "undecodable"},
     status  |-> IF answer.kind = "ok" THEN "ok" ELSE "error",
     results |-> answer.results]

fetchLinkupSearch(which, answer) ==
    [thrown  |-> which = "server" /\ answer.kind \in {"threw", "undecodable"},
     status  |-> IF answer.kind = "ok" THEN "ok" ELSE "error",
     results |-> answer.results]

\* the object generateReply's tools is bound to: a literal of its own
\* (created by generateReply in part_001, by the handler in chat.ts)
newTools_aliasesDefault == "shared"

newTools == "own"

\* the tools of a response body that has no tools property
NoTools == [status |-> "absent", results |-> 0]

NoResponse == [status |-> 0, reply |-> [kind |-> ""], tools |-> NoTools]

IdleReq ==
    [pc |-> "idle", message |-> <<>>, turn |-> 0, scope |-> "", action |-> NoAction,
     trade |-> NoTrade, resolveError |-> "", errorMessage |-> "",
     headerIndex |-> <<>>, row |-> <<>>,
     rows |-> <<>>, trades |-> <<>>, targetRow |-> 0,
     wanted |-> [rowCount |-> 0, columnCount |-> 0],
     completion |-> "", context |-> "", toolsRef |-> "own", tools |-> defaultTools,
     search |-> NoSearch, webSearchPayload |-> <<>>, missing |-> <<>>,
     response |-> NoResponse,
     calls |-> <<>>, push |-> <<>>]

Event(r, e) == [r EXCEPT !.calls = Append(@, e)]

\* the reply pushed without the user message it answers
turnEntries_replyOnly(r, reply) ==
    <<[role |-> "assistant", content |-> <<r.turn, reply.kind>>]>>

\* pushHistory({role: "user", ...}); pushHistory({role: "assistant", ...})
turnEntries(r, reply) ==
    <<[role |-> "user", content |-> <<r.turn, "message">>],
      [role |-> "assistant", content |-> <<r.turn, reply.kind>>]>>

\* res.status(status).json({reply, tools})
respond(r, status, reply, tools, pushes) ==
    [r EXCEPT !.pc = "done",
              !.response = [status |-> status, reply |-> reply, tools |-> tools],
              !.push = pushes]

errorReply(text) == [kind |-> "errorMessage", text |-> text]

completionReply(context) == [kind |-> "completion", context |-> context]

\* appendTradeRow up to its first await (the header read)
startAppend(r, trade) ==
    [Event(r, "appendTradeRow") EXCEPT !.pc = "hdr", !.trade = trade]

\* readTrades up to its first await (the header read)
startRead(r) == [Event(r, "readTrades") EXCEPT !.pc = "rd_hdr"]

RECURSIVE throw(_, _)

\* startReply that leaves the tools untouched when the search key is not set
startReply_silentWithoutKey(r, context) ==
    LET r1 == [Event(r, "generateReply:" \o context) EXCEPT
                   !.context = context, !.toolsRef = newTools,
                   !.tools = IF newTools = "shared" THEN sharedTools ELSE defaultTools,
                   !.search = NoSearch, !.webSearchPayload = <<>>]
    IN  IF ~env.openaiKey THEN throw(r1, ErrMissingKey)
        ELSE IF ~messageFacts[r.message].search
        THEN [r1 EXCEPT !.pc = "complete", !.search = SearchOutcome("not_triggered", 0)]
        ELSE IF ~env.linkupKey
        THEN [r1 EXCEPT !.pc = "complete",
                        !.search = SearchOutcome("not_configured", 0)]
        ELSE [r1 EXCEPT !.pc = "search"]

\* generateReply up to its first await: the key check, then the search
\* decision (without a search key fetchLinkupSearch returns at once)
startReply(r, context) ==
    LET r1 == [Event(r, "generateReply:" \o context) EXCEPT
                   !.context = context, !.toolsRef = newTools,
                   !.tools = IF newTools = "shared" THEN sharedTools ELSE defaultTools,
                   !.search = NoSearch, !.webSearchPayload = <<>>]
    IN  IF ~env.openaiKey THEN throw(r1, ErrMissingKey)
        ELSE IF ~messageFacts[r.message].search
        THEN [r1 EXCEPT !.pc = "complete", !.search = SearchOutcome("not_triggered", 0)]
        ELSE IF ~env.linkupKey
        THEN [r1 EXCEPT !.pc = "complete", !.tools.status = "not_configured",
                        !.search = SearchOutcome("not_configured", 0)]
        ELSE [r1 EXCEPT !.pc = "search"]

\* generateReply after fetchLinkupSearch settled with answer: the status
\* mapping, inside try/catch in part_001; then the prompt is built with
\* webSearchPayload ?? "" and the completion call is issued
searched_usedWhenEmpty(r, answer) ==
    LET r1 == [Event(r, "search") EXCEPT !.search = answer, !.pc = "complete"]
    IN  [r1 EXCEPT !.tools = [status |-> "used", results |-> answer.results],
                   !.webSearchPayload = <<answer.results>>]

searched(r, answer) ==
    LET search == fetchLinkupSearch(impl, answer)
        r1 == [Event(r, "search") EXCEPT !.search = answer, !.pc = "complete"]
    IN  IF search.thrown
        THEN IF impl = "server"
             THEN [r1 EXCEPT !.webSearchPayload = <<>>, !.tools.status = "error"]
             ELSE throw([Event(r, "search") EXCEPT !.search = answer], ErrFetch)
        ELSE IF search.status = "error" THEN [r1 EXCEPT !.tools.status = "error"]
        ELSE [r1 EXCEPT !.tools = [status  |-> IF search.results > 0 THEN "used"
                                               ELSE "attempted",
                                   results |-> search.results],
                        !.webSearchPayload = IF search.results > 0
                                             THEN <<search.results>> ELSE <<>>]

\* the manual-fallback branch of both catch blocks of index.ts
manualFallback(r) ==
    LET manualFields == messageFacts[r.message].fields
        missing == getMissingManualFields(manualFields)
        r1 == Event(r, "parseManualTrade")
    IN  IF Len(missing) = 0
        THEN startAppend(r1, manualTrade(manualFields))
        ELSE respond(r1, 503, manualTradePrompt(missing), sharedTools, <<>>)

\* the outer catch block of index.ts
outerCatch(r, error) ==
    LET r1 == [r EXCEPT !.errorMessage = error, !.scope = "outer_catch"]
    IN  IF isLlmAuthError(error) THEN manualFallback(r1)
        ELSE startReply([r1 EXCEPT !.scope = "catch_try"], "error")

\* the catch block of chat.ts
apiCatch(r, error) ==
    respond([r EXCEPT !.errorMessage = error, !.scope = "catch"],
            500, errorReply(error), sharedTools, <<>>)

\* an exception raised while the handler is in scope r.scope
throw(r, error) ==
    IF r.scope = "call"
    THEN \* the ledger client was called directly: its promise rejects
         [r EXCEPT !.pc = "done", !.errorMessage = error]
    ELSE IF impl = "api" THEN apiCatch(r, error)
    ELSE IF r.scope \in {"try", "inner_catch"} THEN outerCatch(r, error)
    ELSE IF r.scope = "catch_try"
    THEN respond(r, 500, errorReply(r.errorMessage), sharedTools, <<>>)
    ELSE \* thrown by the outer catch block itself: nothing catches it and
         \* no response is sent
         [r EXCEPT !.pc = "crashed", !.errorMessage = error]

\* interpretMessage threw: the inner catch of index.ts; chat.ts has none
resolveFailed(r, error) ==
    LET r1 == [r EXCEPT !.resolveError = error]
    IN  IF impl = "server" /\ isLlmAuthError(error)
        THEN manualFallback([r1 EXCEPT !.scope = "inner_catch"])
        ELSE throw(r1, error)

\* the dispatch with the LogTrade branch composing its reply before the append
resolved_composesFirst(r, action) ==
    LET r1 == [r EXCEPT !.action = action]
    IN  IF action.action = "log_trade" /\ action.trade # <<>>
        THEN startReply([r1 EXCEPT !.trade = action.trade[1]], "log_trade")
        ELSE IF action.action = "summarize" THEN startRead(r1)
        ELSE startReply(r1, "unknown")

\* interpretMessage returned: the dispatch on the action
resolved(r, action) ==
    LET r1 == [r EXCEPT !.action = action]
    IN  IF action.action = "log_trade" /\ action.trade # <<>>
        THEN startAppend(r1, action.trade[1])
        ELSE IF action.action = "summarize" THEN startRead(r1)
        ELSE startReply(r1, "unknown")

\* appendTradeRow returned, and every branch goes on to generateReply
appended_composes(r) == startReply(Event(r, "appendTradeRow:done"), "log_trade")

\* appendTradeRow returned
appended(r) ==
    LET r1 == Event(r, "appendTradeRow:done")
    IN  IF r.scope = "call" THEN [r1 EXCEPT !.pc = "done"]
        ELSE IF r.scope = "try" THEN startReply(r1, "log_trade")
        ELSE LET reply == manualTradeConfirmation(r.trade)
             IN  respond(r1, 200, reply, sharedTools, turnEntries(r, reply))

\* generateReply returned
replied(r) ==
    LET reply == completionReply(r.context)
    IN  respond(r, IF r.scope = "catch_try" THEN 500 ELSE 200, reply, r.tools,
                turnEntries(r, reply))

----------------------------------------------------------------------------
(* Steps *)

RECURSIVE pushAll(_, _)
pushAll(h, entries) ==
    IF entries = <<>> THEN h
    ELSE pushAll(pushHistory(h, Head(entries)), Tail(entries))

\* slot p continues as r; the history pushes r carries are performed, and
\* what r wrote to its tools object is written to the object it is bound to
Continue(p, r) ==
    \E next \in {r} :
        /\ req' = [req EXCEPT ![p] = [next EXCEPT !.push = <<>>]]
        /\ chatHistory' = pushAll(chatHistory, next.push)
        /\ pushed' = pushed \o next.push
        /\ sharedTools' = IF next.toolsRef = "shared" THEN next.tools
                          ELSE sharedTools

storeVars == <<header, data, grid, sheetId>>

fixedVars == <<impl, env>>

Idle(p) == req[p].pc \in {"idle", "done", "crashed"}

\* a request with one of messages arrives: the handler runs up to the
\* interpretMessage call
ReceiveOf(p, messages) ==
    /\ Idle(p)
    /\ turns < MaxRequests
    /\ turns' = turns + 1
    /\ \E message \in messages :
         LET r0 == [IdleReq EXCEPT !.message = message, !.turn = turns + 1,
                                   !.scope = "try"]
             r1 == Event(r0, "interpretMessage")
         IN  IF messageFacts[message].blank
             THEN Continue(p, respond(r0, 400, [kind |-> "Message is required."],
                                      IF impl = "api" THEN sharedTools ELSE NoTools,
                                      <<>>))
             ELSE IF ~env.openaiKey
             THEN Continue(p, resolveFailed(r1, ErrMissingKey))
             ELSE Continue(p, [r1 EXCEPT !.pc = "resolve"])
    /\ UNCHANGED <<storeVars, fixedVars>>

Receive(p) == ReceiveOf(p, Messages)

\* the completion call of interpretMessage returns a text that parses to
\* one of actions
ResolveTo(p, actions) ==
    /\ req[p].pc = "resolve"
    /\ \E action \in actions :
         Continue(p, resolved(Event(req[p], "completion"), action))
    /\ UNCHANGED <<storeVars, fixedVars, turns>>

ResolveOk(p) == ResolveTo(p, ResolvedActions)

ResolveFail(p) ==
    /\ req[p].pc = "resolve"
    /\ \E error \in CompletionFailures :
         Continue(p, resolveFailed(Event(req[p], "completion"), error))
    /\ UNCHANGED <<storeVars, fixedVars, turns>>

\* appendTradeRow with the header index of the standard header kept from an
\* earlier call instead of the one just read
HeaderReadOk_cachedIndex(p) ==
    /\ req[p].pc = "hdr"
    /\ LET r1 == Event(req[p], "values.get:header")
           headerIndex == headerIndexOf(StandardHeader)
           built == buildRow(impl, r1.trade, headerIndex)
           r2 == Event([r1 EXCEPT !.headerIndex = headerIndex], "buildRow")
       IN  IF built.error # "" THEN Continue(p, throw(r2, built.error))
           ELSE Continue(p, [r2 EXCEPT !.row = built.row, !.pc = "rows"])
    /\ UNCHANGED <<storeVars, fixedVars, turns>>

\* getHeaderIndex of appendTradeRow returns; buildRow runs
HeaderReadOk(p) ==
    /\ req[p].pc = "hdr"
    /\ LET r1 == Event(req[p], "values.get:header")
           headerIndex == headerIndexOf(dropTrailingEmpty(header))
           built == buildRow(impl, r1.trade, headerIndex)
           r2 == Event([r1 EXCEPT !.headerIndex = headerIndex], "buildRow")
       IN  IF built.error # "" THEN Continue(p, throw(r2, built.error))
           ELSE Continue(p, [r2 EXCEPT !.row = built.row, !.pc = "rows"])
    /\ UNCHANGED <<storeVars, fixedVars, turns>>

HeaderReadFail(p) ==
    /\ req[p].pc \in {"hdr", "rd_hdr"}
    /\ \E f \in TransportFailures :
         Continue(p, throw(Event(req[p], "values.get:header"),
                           storeError(impl, f, "reading headers")))
    /\ UNCHANGED <<storeVars, fixedVars, turns>>

\* the data-row read of appendTradeRow returns; the target row is computed
RowsReadOk(p) ==
    /\ req[p].pc = "rows"
    /\ LET rows == valuesGet(data)
           r1 == Event(Event(req[p], "values.get:rows"), "targetRow")
       IN  Continue(p, [r1 EXCEPT !.rows = rows, !.targetRow = targetRowOf(rows),
                                  !.pc = "props"])
    /\ UNCHANGED <<storeVars, fixedVars, turns>>

RowsReadFail(p) ==
    /\ req[p].pc \in {"rows", "rd_rows"}
    /\ \E f \in TransportFailures :
         Continue(p, throw(Event(req[p], "values.get:rows"),
                           storeError(impl, f, "reading trade rows")))
    /\ UNCHANGED <<storeVars, fixedVars, turns>>

\* PropsOk with the row written before the capacity is ensured
PropsOk_writesEarly(p) ==
    /\ req[p].pc = "props"
    /\ data' = valuesUpdate(data, req[p].targetRow, req[p].row)
    /\ Continue(p, [Event(req[p], "spreadsheets.get") EXCEPT !.pc = "write"])
    /\ UNCHANGED <<header, grid, sheetId, fixedVars, turns>>

\* getSheetProperties returns; ensureSheetCapacity decides on the resize
PropsOk(p) ==
    /\ req[p].pc = "props"
    /\ LET r1 == Event(req[p], "spreadsheets.get")
           wanted == [rowCount |-> targetRowsOf(impl, grid.rowCount, r1.targetRow),
                      columnCount |-> targetColumnsOf(grid.columnCount, Len(r1.row))]
       IN  IF sheetId = 0 THEN Continue(p, throw(r1, ErrSheetNotFound))
           ELSE IF wanted = grid THEN Continue(p, [r1 EXCEPT !.pc = "write"])
           ELSE Continue(p, [r1 EXCEPT !.wanted = wanted, !.pc = "resize"])
    /\ UNCHANGED <<storeVars, fixedVars, turns>>

PropsFail(p) ==
    /\ req[p].pc = "props"
    /\ \E f \in TransportFailures :
         Continue(p, throw(Event(req[p], "spreadsheets.get"),
                           storeError(impl, f, "reading sheet metadata")))
    /\ UNCHANGED <<storeVars, fixedVars, turns>>

\* the batchUpdate of ensureSheetCapacity is applied
ResizeOk(p) ==
    /\ req[p].pc = "resize"
    /\ grid' = req[p].wanted
    /\ Continue(p, [Event(req[p], "batchUpdate") EXCEPT !.pc = "write"])
    /\ UNCHANGED <<header, data, sheetId, fixedVars, turns>>

ResizeFail(p) ==
    /\ req[p].pc = "resize"
    /\ \E f \in TransportFailures :
         Continue(p, throw(Event(req[p], "batchUpdate"),
                           storeError(impl, f, "resizing the trade log sheet")))
    /\ UNCHANGED <<storeVars, fixedVars, turns>>

\* the range of the write lies inside the grid
InGrid(r) == r.targetRow <= grid.rowCount /\ Len(r.row) <= grid.columnCount

\* values.update writes the row; appendTradeRow returns
WriteOk(p) ==
    /\ req[p].pc = "write"
    /\ InGrid(req[p])
    /\ data' = valuesUpdate(data, req[p].targetRow, req[p].row)
    /\ Continue(p, appended(Event(req[p], "values.update")))
    /\ UNCHANGED <<header, grid, sheetId, fixedVars, turns>>

\* values.update fails: in transport, or because the range exceeds the grid
WriteFail(p) ==
    /\ req[p].pc = "write"
    /\ \E f \in IF InGrid(req[p]) THEN TransportFailures
                ELSE {TransportError(400, "INVALID_ARGUMENT", ErrGridLimits,
                                     ErrGridLimits)} :
         Continue(p, throw(Event(req[p], "values.update"),
                           storeError(impl, f, "appending a trade row")))
    /\ UNCHANGED <<storeVars, fixedVars, turns>>

\* getHeaderIndex of readTrades returns
ReadHeaderOk(p) ==
    /\ req[p].pc = "rd_hdr"
    /\ Continue(p, [Event(req[p], "values.get:header") EXCEPT
                        !.headerIndex = headerIndexOf(dropTrailingEmpty(header)),
                        !.pc = "rd_rows"])
    /\ UNCHANGED <<storeVars, fixedVars, turns>>

\* the row read of readTrades returns; summarizeTrades runs
ReadRowsOk(p) ==
    /\ req[p].pc = "rd_rows"
    /\ \E r1 \in {Event(Event(req[p], "values.get:rows"), "readTrades:done")} :
       \E trades \in {projectRows(r1.headerIndex, valuesGet(data))} :
       \E query \in {IF r1.action.summary = <<>> THEN NoQuery
                     ELSE r1.action.summary[1]} :
         IF r1.scope = "call"
         THEN Continue(p, [r1 EXCEPT !.trades = trades, !.pc = "done"])
         ELSE \E summary \in {summarizeTrades(impl, trades, query, env.utcOffset)} :
                Continue(p, startReply(Event([r1 EXCEPT !.trades = trades,
                                                        !.rows = summary],
                                             "summarizeTrades"),
                                       "summarize"))
    /\ UNCHANGED <<storeVars, fixedVars, turns>>

\* the search call of generateReply settles
SearchDone(p) ==
    /\ req[p].pc = "search"
    /\ \E answer \in SearchAnswers : Continue(p, searched(req[p], answer))
    /\ UNCHANGED <<storeVars, fixedVars, turns>>

\* the completion call of generateReply returns a text
CompleteOk(p) ==
    /\ req[p].pc = "complete"
    /\ Continue(p, replied(Event(req[p], "completion")))
    /\ UNCHANGED <<storeVars, fixedVars, turns>>

CompleteFail(p) ==
    /\ req[p].pc = "complete"
    /\ \E error \in CompletionFailures :
         Continue(p, throw(Event(req[p], "completion"), error))
    /\ UNCHANGED <<storeVars, fixedVars, turns>>

----------------------------------------------------------------------------
(* Specification: requests handled one at a time *)

\* a grid that holds the header and the data rows, tightly or with room
FitsGrid(g, hdr, rows) ==
    /\ g.rowCount >= (dataStartRow - 1) + Len(rows)
    /\ g.columnCount >= Len(hdr)
    /\ \A i \in 1..Len(rows) : g.columnCount >= Len(rows[i])

TightGrid(hdr, rows) ==
    [rowCount |-> (dataStartRow - 1) + Len(rows), columnCount |-> Len(hdr)]

RoomyGrid == [rowCount |-> 1000, columnCount |-> 26]

\* the sheets a behaviour may start from: the standard header over each of
\* the initial data sets in a tight or a roomy grid; a sheet with a foreign
\* header; a sheet whose id is 0
InitialSheets ==
    {[header |-> StandardHeader, data |-> d, grid |-> g, sheetId |-> 1] :
        d \in InitialData,
        g \in {RoomyGrid} \cup {TightGrid(StandardHeader, x) : x \in InitialData}}
    \cup {[header |-> ForeignHeader, data |-> <<>>, grid |-> RoomyGrid, sheetId |-> 1],
          [header |-> StandardHeader, data |-> <<RowAAPL>>, grid |-> RoomyGrid,
           sheetId |-> 0]}

Init ==
    /\ impl \in {"server", "api"}
    /\ env \in [openaiKey : BOOLEAN, linkupKey : BOOLEAN, utcOffset : {0}]
    /\ env.linkupKey => env.openaiKey   \* without the completion key no search runs
    /\ chatHistory = <<>>
    /\ pushed = <<>>
    /\ \E sheet \in InitialSheets :
         /\ header = sheet.header
         /\ data = sheet.data
         /\ grid = sheet.grid
         /\ sheetId = sheet.sheetId
    /\ FitsGrid(grid, header, data)
    /\ turns = 0
    /\ sharedTools = defaultTools
    /\ req = [p \in Procs |-> IdleReq]

Step(p) ==
    \/ Receive(p)
    \/ ResolveOk(p)
    \/ ResolveFail(p)
    \/ HeaderReadOk(p)
    \/ HeaderReadFail(p)
    \/ RowsReadOk(p)
    \/ RowsReadFail(p)
    \/ PropsOk(p)
    \/ PropsFail(p)
    \/ ResizeOk(p)
    \/ ResizeFail(p)
    \/ WriteOk(p)
    \/ WriteFail(p)
    \/ ReadHeaderOk(p)
    \/ ReadRowsOk(p)
    \/ SearchDone(p)
    \/ CompleteOk(p)
    \/ CompleteFail(p)

Next == \E p \in SeqProcs : Step(p)

Spec == Init /\ [][Next]_vars

----------------------------------------------------------------------------
(* Specification of the chat history alone: the pushHistory calls of the    *)
(* reply paths, a user entry and then an assistant entry per turn, for more *)
(* turns than the history holds                                             *)

ReplyKinds == {"completion", "manualTradeConfirmation"}

InitHistory ==
    /\ Init
    /\ env.linkupKey
    /\ header = StandardHeader
    /\ data = <<>>
    /\ grid = RoomyGrid
    /\ sheetId = 1

\* pushHistory({role: "user", content: message})
PushUser ==
    /\ Len(pushed) < MaxPushes
    /\ Len(pushed) % 2 = 0
    /\ LET entry == [role |-> "user",
                     content |-> <<(Len(pushed) \div 2) + 1, "message">>]
       IN  /\ chatHistory' = pushHistory(chatHistory, entry)
           /\ pushed' = Append(pushed, entry)
    /\ UNCHANGED <<storeVars, fixedVars, turns, sharedTools, req>>

\* pushHistory({role: "assistant", content: reply})
PushAssistant ==
    /\ Len(pushed) < MaxPushes
    /\ Len(pushed) % 2 = 1
    /\ \E kind \in ReplyKinds :
         LET entry == [role |-> "assistant",
                       content |-> <<(Len(pushed) \div 2) + 1, kind>>]
         IN  /\ chatHistory' = pushHistory(chatHistory, entry)
             /\ pushed' = Append(pushed, entry)
    /\ UNCHANGED <<storeVars, fixedVars, turns, sharedTools, req>>

NextHistory == PushUser \/ PushAssistant

SpecHistory == InitHistory /\ [][NextHistory]_vars

----------------------------------------------------------------------------
(* Specification of the ledger client alone: appendTradeRow and readTrades  *)
(* called one at a time, and between the calls the owner of the sheet       *)
(* clearing whole rows or moving columns                                    *)

TradeUndated ==
    [date |-> "", transactionType |-> "sell", symbol |-> "", quantity |-> 2,
     amountPerUnit |-> 300, totalAmount |-> 600, tradingFees |-> 0,
     investmentAccount |-> "Brokerage 2"]

TradeLower ==
    [TradeAAPL EXCEPT !.transactionType = "BUY", !.symbol = "msft", !.quantity = 3,
                      !.totalAmount = 600]

LedgerTrades == {TradeAAPL, TradeUndated, TradeLower}

\* a sheet that has only the date and the symbol of the configured columns
SparseHeader == <<"Notes", "Date (MM-DD-YYYY)", "Stock / ETF Symbol">>

LedgerSheets ==
    {[header |-> StandardHeader, data |-> d, grid |-> g] :
        d \in {<<>>, <<RowAAPL, <<>>, RowAAPL>>},
        g \in {RoomyGrid, TightGrid(StandardHeader, <<RowAAPL, <<>>, RowAAPL>>)}}
    \cup {[header |-> SparseHeader, data |-> <<>>, grid |-> RoomyGrid]}

InitLedger ==
    /\ impl \in {"server", "api"}
    /\ env = [openaiKey |-> TRUE, linkupKey |-> FALSE, utcOffset |-> 0]
    /\ chatHistory = <<>>
    /\ pushed = <<>>
    /\ \E sheet \in LedgerSheets :
         /\ header = sheet.header
         /\ data = sheet.data
         /\ grid = sheet.grid
    /\ sheetId = 1
    /\ turns = 0
    /\ sharedTools = defaultTools
    /\ req = [p \in Procs |-> IdleReq]

\* a caller invokes appendTradeRow(trade, config), as one of at most limit
\* calls
CallAppendOf(p, limit) ==
    /\ Idle(p)
    /\ turns < limit
    /\ turns' = turns + 1
    /\ \E trade \in LedgerTrades :
         Continue(p, startAppend([IdleReq EXCEPT !.turn = turns + 1,
                                                 !.scope = "call"], trade))
    /\ UNCHANGED <<storeVars, fixedVars>>

CallAppend(p) == CallAppendOf(p, MaxCalls)

\* a caller invokes readTrades(config)
CallRead(p) ==
    /\ Idle(p)
    /\ turns < MaxCalls
    /\ turns' = turns + 1
    /\ Continue(p, startRead([IdleReq EXCEPT !.turn = turns + 1, !.scope = "call"]))
    /\ UNCHANGED <<storeVars, fixedVars>>

\* no call of the ledger client is in flight
Quiet == \A p \in Procs : Idle(p)

\* the owner clears a whole data row
ClearRow ==
    /\ Quiet
    /\ \E i \in 1..Len(data) :
         /\ data[i] # <<>>
         /\ data' = dropTrailingRows([data EXCEPT ![i] = <<>>])
    /\ UNCHANGED <<header, grid, sheetId, fixedVars, chatHistory, pushed, turns, sharedTools, req>>

\* the cells of one row with columns i and j exchanged
swapCells(cells, i, j) ==
    LET cell(k) == IF k <= Len(cells) THEN cells[k] ELSE ""
    IN  dropTrailingEmpty([k \in 1..Max(Len(cells), Max(i, j)) |->
            IF k = i THEN cell(j) ELSE IF k = j THEN cell(i) ELSE cell(k)])

ColumnSwaps == {<<1, 3>>, <<2, 8>>}

\* the owner exchanges two columns of the sheet, header and data alike
ReorderColumns ==
    /\ Quiet
    /\ \E swap \in ColumnSwaps :
         /\ header' = swapCells(header, swap[1], swap[2])
         /\ data' = [i \in 1..Len(data) |-> swapCells(data[i], swap[1], swap[2])]
    /\ UNCHANGED <<grid, sheetId, fixedVars, chatHistory, pushed, turns, sharedTools, req>>

LedgerStep(p) ==
    \/ CallAppend(p)
    \/ CallRead(p)
    \/ HeaderReadOk(p)
    \/ HeaderReadFail(p)
    \/ RowsReadOk(p)
    \/ RowsReadFail(p)
    \/ PropsOk(p)
    \/ PropsFail(p)
    \/ ResizeOk(p)
    \/ ResizeFail(p)
    \/ WriteOk(p)
    \/ WriteFail(p)
    \/ ReadHeaderOk(p)
    \/ ReadRowsOk(p)

NextLedger == (\E p \in SeqProcs : LedgerStep(p)) \/ ClearRow \/ ReorderColumns

SpecLedger == InitLedger /\ [][NextLedger]_vars

----------------------------------------------------------------------------
(* Specification of concurrent appends: two callers of appendTradeRow whose *)
(* store round-trips interleave freely                                      *)

ConcurrentStep(p) ==
    \/ CallAppend(p)
    \/ HeaderReadOk(p)
    \/ HeaderReadFail(p)
    \/ RowsReadOk(p)
    \/ RowsReadFail(p)
    \/ PropsOk(p)
    \/ PropsFail(p)
    \/ ResizeOk(p)
    \/ ResizeFail(p)
    \/ WriteOk(p)
    \/ WriteFail(p)

NextConcurrent == \E p \in Procs : ConcurrentStep(p)

SpecConcurrent == InitLedger /\ [][NextConcurrent]_vars

----------------------------------------------------------------------------
(* Specification of the capacity step under concurrent appends: two callers *)
(* make up to MaxAppends calls of appendTradeRow on a sheet whose grid ends  *)
(* at the header row                                                        *)

InitCapacity ==
    /\ impl \in {"server", "api"}
    /\ env = [openaiKey |-> TRUE, linkupKey |-> FALSE, utcOffset |-> 0]
    /\ chatHistory = <<>>
    /\ pushed = <<>>
    /\ header = StandardHeader
    /\ data = <<>>
    /\ grid = TightGrid(StandardHeader, <<>>)
    /\ sheetId = 1
    /\ turns = 0
    /\ sharedTools = defaultTools
    /\ req = [p \in Procs |-> IdleReq]

CapacityStep(p) ==
    \/ CallAppendOf(p, MaxAppends)
    \/ HeaderReadOk(p)
    \/ RowsReadOk(p)
    \/ PropsOk(p)
    \/ ResizeOk(p)
    \/ WriteOk(p)
    \/ WriteFail(p)

NextCapacity == \E p \in Procs : CapacityStep(p)

SpecCapacity == InitCapacity /\ [][NextCapacity]_vars

----------------------------------------------------------------------------
(* Specification of a writer and a reader: slot p1 calls appendTradeRow,    *)
(* slot p2 calls readTrades, one call at a time                             *)

RoundTripStep(p) ==
    \/ Quiet /\ p = "p1" /\ CallAppend(p)
    \/ Quiet /\ p = "p2" /\ CallRead(p)
    \/ HeaderReadOk(p)
    \/ HeaderReadFail(p)
    \/ RowsReadOk(p)
    \/ RowsReadFail(p)
    \/ PropsOk(p)
    \/ PropsFail(p)
    \/ ResizeOk(p)
    \/ ResizeFail(p)
    \/ WriteOk(p)
    \/ WriteFail(p)
    \/ ReadHeaderOk(p)
    \/ ReadRowsOk(p)

NextRoundTrip == \E p \in Procs : RoundTripStep(p)

SpecRoundTrip == InitLedger /\ [][NextRoundTrip]_vars

----------------------------------------------------------------------------
(* Specification of buildRow: the rows it builds for the trades and header *)
(* rows appendTradeRow can be called with                                   *)

TradeMSFT ==
    [date |-> "02-03-2026", transactionType |-> "sell", symbol |-> "MSFT",
     quantity |-> 3, amountPerUnit |-> 400, totalAmount |-> 1250,
     tradingFees |-> 5, investmentAccount |-> "Brokerage 2"]

\* transaction types as a caller may spell them
RowTypes == {"buy", " SELL ", "Cost base adj.", "short"}

\* total amounts: 0, a total that differs from quantity * amountPerUnit, and
\* the values that are not finite numbers
RowTotals == {0, 1250, Undefined, NotANumber, Infinity}

RowTrades ==
    {[t EXCEPT !.transactionType = ty, !.totalAmount = tot] :
        t \in {TradeAAPL, TradeMSFT}, ty \in RowTypes, tot \in RowTotals}

\* the standard header with its columns in another order
ShuffledHeader ==
    <<"Investment Account", "Trading Fees", "Total Amount (before trading fees)",
      "Notes", "Amount per unit", "Quantity of Units", "Stock / ETF Symbol",
      "Transaction Type", "Date (MM-DD-YYYY)">>

\* header rows: all columns, columns in another order, some columns, padded
\* and repeated header texts, no configured column, no header at all
RowHeaders ==
    {StandardHeader, ShuffledHeader, SparseHeader, ForeignHeader, <<>>,
     <<" Transaction Type ", "", "Total Amount (before trading fees)">>,
     <<"Trading Fees", "Investment Account", "Trading Fees">>}

InitRow ==
    /\ impl \in {"server", "api"}
    /\ env = [openaiKey |-> TRUE, linkupKey |-> FALSE, utcOffset |-> 0]
    /\ chatHistory = <<>>
    /\ pushed = <<>>
    /\ header \in RowHeaders
    /\ data = <<>>
    /\ grid = RoomyGrid
    /\ sheetId = 1
    /\ turns = 0
    /\ sharedTools = defaultTools
    /\ req = [p \in Procs |-> IdleReq]

\* const row = buildRow(trade, headerIndex, config), on the index of the
\* header row
BuildRow(p) ==
    /\ turns < MaxCalls
    /\ turns' = turns + 1
    /\ \E trade \in RowTrades :
         LET headerIndex == headerIndexOf(header)
             built == buildRow(impl, trade, headerIndex)
         IN  req' = [req EXCEPT ![p] =
                        [IdleReq EXCEPT !.pc = "built", !.turn = turns + 1,
                                        !.trade = trade,
                                        !.headerIndex = headerIndex,
                                        !.row = built.row,
                                        !.errorMessage = built.error]]
    /\ UNCHANGED <<storeVars, fixedVars, chatHistory, pushed, sharedTools>>

NextRow == \E p \in SeqProcs : BuildRow(p)

SpecRow == InitRow /\ [][NextRow]_vars

----------------------------------------------------------------------------
(* Specification of readTrades and summarizeTrades as functions of the sheet *)
(* and the query                                                            *)

RowSell == <<"01-20-2026", "Sell", "aapl", "2", "200", "", "0">>

RowMSFT == <<"02-15-2026", "Buy", "MSFT", "10", "5", "0", "1">>

RowOther == <<"soon", "Dividend", "MSFT", "3", "1", "n/a">>

RowReturned == <<"01-20-2026", "buy", "TSLA", "-5", "10">>

RowSpaces == <<" ", "">>

RowThirds == <<"03-01-2026", " BUY more", "aapl", "3", "7", "$200">>

\* the data rows of the sheets that are read
SummarySheets ==
    {<<>>, <<RowAAPL>>, <<RowSpaces, <<>>, <<"", "">>>>,
     <<RowAAPL, RowSell, RowMSFT>>,
     <<RowMSFT, <<>>, RowOther, RowAAPL>>,
     <<RowSell, RowReturned, RowSpaces, RowAAPL>>,
     <<RowOther, RowMSFT, RowMSFT>>,
     <<RowThirds, RowAAPL, RowThirds>>}

\* header rows with a cell of white space, padded texts and a repeated text
PaddedHeader ==
    <<" Transaction Type ", " ", "Stock / ETF Symbol", "Quantity of Units", "",
      "Quantity of Units">>

SummaryHeaders == {StandardHeader, SparseHeader, PaddedHeader}

SummaryQueries ==
    {NoQuery, Query("aapl", "", ""), Query("MSFT", "soon", ""),
     Query("", "01-20-2026", ""), Query("", "", "2026-01-20"),
     Query("", "2026-01-20", "02-15-2026")}

\* hours the zone of the process is ahead of UTC
UtcOffsets == {0 - 5, 0, 3}

InitSummary ==
    /\ impl \in {"server", "api"}
    /\ env \in [openaiKey : {TRUE}, linkupKey : {FALSE}, utcOffset : UtcOffsets]
    /\ chatHistory = <<>>
    /\ pushed = <<>>
    /\ header \in SummaryHeaders
    /\ data \in SummarySheets
    /\ grid = RoomyGrid
    /\ sheetId = 1
    /\ turns = 0
    /\ sharedTools = defaultTools
    /\ req = [p \in Procs |-> IdleReq]

\* const rows = await readTrades(config); summarizeTrades(rows, query), with
\* both store reads answered
Summarize(p) ==
    /\ turns < MaxCalls
    /\ turns' = turns + 1
    /\ \E query \in SummaryQueries :
         LET headerIndex == headerIndexOf(dropTrailingEmpty(header))
             trades == projectRows(headerIndex, valuesGet(data))
         IN  req' = [req EXCEPT ![p] =
                        [IdleReq EXCEPT
                            !.pc = "summarized", !.turn = turns + 1,
                            !.action = Resolved("summarize", <<>>, <<query>>),
                            !.headerIndex = headerIndex,
                            !.trades = trades,
                            !.rows = summarizeTrades(impl, trades, query, env.utcOffset)]]
    /\ UNCHANGED <<storeVars, fixedVars, chatHistory, pushed, sharedTools>>

NextSummary == \E p \in SeqProcs : Summarize(p)

SpecSummary == InitSummary /\ [][NextSummary]_vars

----------------------------------------------------------------------------
(* Specification of interpretMessage alone: callers invoke it and the       *)
(* completion service answers with a text, or fails                         *)

TextTradeAAPL ==
    "{\"date\": \"01-20-2026\", \"transactionType\": \"buy\", \"symbol\": \"AAPL\", "
    \o "\"quantity\": 10, \"amountPerUnit\": 192, \"totalAmount\": 0, "
    \o "\"tradingFees\": 1, \"investmentAccount\": \"Brokerage 1\"}"

\* the trade without its date
TextTradeUndated ==
    "{\"transactionType\": \"buy\", \"symbol\": \"AAPL\", "
    \o "\"quantity\": 10, \"amountPerUnit\": 192, \"totalAmount\": 0, "
    \o "\"tradingFees\": 1, \"investmentAccount\": \"Brokerage 1\"}"

\* the trade with its quantity as a string
TextTradeQuoted ==
    "{\"date\": \"01-20-2026\", \"transactionType\": \"buy\", \"symbol\": \"AAPL\", "
    \o "\"quantity\": \"10\", \"amountPerUnit\": 192, \"totalAmount\": 0, "
    \o "\"tradingFees\": 1, \"investmentAccount\": \"Brokerage 1\"}"

\* the trade with a transaction type outside the enum
TextTradeShort ==
    "{\"date\": \"01-20-2026\", \"transactionType\": \"short\", \"symbol\": \"AAPL\", "
    \o "\"quantity\": 10, \"amountPerUnit\": 192, \"totalAmount\": 0, "
    \o "\"tradingFees\": 1, \"investmentAccount\": \"Brokerage 1\"}"

\* completion texts the response schema accepts, with what they resolve to
SoundTexts ==
    {<<"{\"action\": \"log_trade\", \"trade\": " \o TextTradeAAPL \o "}",
       Resolved("log_trade", <<TradeAAPL>>, <<>>)>>,
     <<"{\"action\":\"log_trade\",\"trade\":null}",
       Resolved("log_trade", <<>>, <<>>)>>,
     <<"Sure! {\"action\": \"summarize\", \"summary\": {\"symbol\": \"aapl\", \"startDate\": null}} Done.",
       Resolved("summarize", <<>>, <<Query("aapl", "", "")>>)>>,
     <<"{\"action\": \"summarize\"}", Resolved("summarize", <<>>, <<>>)>>,
     <<"{ \"action\" : \"unknown\", \"note\": true }", Resolved("unknown", <<>>, <<>>)>>}

\* completion texts with no braces, braces in the wrong order, text that is
\* not JSON, two objects, an action that is missing or outside the enum, a
\* trade with a missing field, a wrongly typed field or a type outside the
\* enum, a summary with a wrongly typed field
BrokenTexts ==
    {"",
     "I cannot help with that.",
     "} {",
     "{\"action\": summarize}",
     "{\"action\": \"summarize\",}",
     "{\"action\": \"unknown\"} or {\"action\": \"summarize\"}",
     "{\"trade\": null}",
     "{\"action\": \"delete\"}",
     "{\"action\": 1}",
     "{\"action\": \"log_trade\", \"trade\": " \o TextTradeUndated \o "}",
     "{\"action\": \"log_trade\", \"trade\": " \o TextTradeQuoted \o "}",
     "{\"action\": \"log_trade\", \"trade\": " \o TextTradeShort \o "}",
     "{\"action\": \"log_trade\", \"trade\": \"AAPL\"}",
     "{\"action\": \"summarize\", \"summary\": {\"symbol\": 5}}"}

CompletionTexts == {sound[1] : sound \in SoundTexts} \cup BrokenTexts

InitInterpret ==
    /\ impl \in {"server", "api"}
    /\ env \in [openaiKey : BOOLEAN, linkupKey : {FALSE}, utcOffset : {0}]
    /\ chatHistory = <<>>
    /\ pushed = <<>>
    /\ header = StandardHeader
    /\ data = <<>>
    /\ grid = RoomyGrid
    /\ sheetId = 1
    /\ turns = 0
    /\ sharedTools = defaultTools
    /\ req = [p \in Procs |-> IdleReq]

\* a caller invokes interpretMessage(message, history): the key check, then
\* the completion call
CallInterpret(p) ==
    /\ Idle(p)
    /\ turns < MaxRequests
    /\ turns' = turns + 1
    /\ LET r == Event([IdleReq EXCEPT !.message = MsgPrice, !.turn = turns + 1,
                                      !.scope = "call"], "interpretMessage")
       IN  IF ~env.openaiKey
           THEN Continue(p, [r EXCEPT !.pc = "done", !.resolveError = ErrMissingKey])
           ELSE Continue(p, [r EXCEPT !.pc = "resolve"])
    /\ UNCHANGED <<storeVars, fixedVars>>

\* the completion call returns a text
InterpretOk(p) ==
    /\ req[p].pc = "resolve"
    /\ \E response \in CompletionTexts :
         LET result == interpretResponse(response)
         IN  Continue(p, [Event(req[p], "completion") EXCEPT
                              !.pc = "done", !.completion = response,
                              !.resolveError = result.error,
                              !.action = result.action])
    /\ UNCHANGED <<storeVars, fixedVars, turns>>

\* the completion call fails
InterpretFail(p) ==
    /\ req[p].pc = "resolve"
    /\ \E error \in CompletionFailures :
         Continue(p, [Event(req[p], "completion:failed") EXCEPT
                          !.pc = "done", !.resolveError = error])
    /\ UNCHANGED <<storeVars, fixedVars, turns>>

NextInterpret ==
    \E p \in Procs : CallInterpret(p) \/ InterpretOk(p) \/ InterpretFail(p)

SpecInterpret == InitInterpret /\ [][NextInterpret]_vars

----------------------------------------------------------------------------
(* Specification of the replies: requests that touch no ledger, handled by  *)
(* two slots at once, with the search service answering either way          *)

\* a message that triggers the search, one that does not, a blank one
ReplyMessages == {MsgPrice, MsgManualPartial, MsgBlank}

InitReplies ==
    /\ impl \in {"server", "api"}
    /\ env \in [openaiKey : BOOLEAN, linkupKey : BOOLEAN, utcOffset : {0}]
    /\ env.linkupKey => env.openaiKey
    /\ chatHistory = <<>>
    /\ pushed = <<>>
    /\ header = StandardHeader
    /\ data = <<>>
    /\ grid = RoomyGrid
    /\ sheetId = 1
    /\ turns = 0
    /\ sharedTools = defaultTools
    /\ req = [p \in Procs |-> IdleReq]

ReceiveReply(p) == ReceiveOf(p, ReplyMessages)

ResolveUnknown(p) == ResolveTo(p, {Resolved("unknown", <<>>, <<>>)})

ReplyStep(p) ==
    \/ ReceiveReply(p)
    \/ ResolveUnknown(p)
    \/ ResolveFail(p)
    \/ SearchDone(p)
    \/ CompleteOk(p)
    \/ CompleteFail(p)

NextReplies == \E p \in Procs : ReplyStep(p)

SpecReplies == InitReplies /\ [][NextReplies]_vars

----------------------------------------------------------------------------
(* Specification of concurrent requests on a long conversation: the steps   *)
(* of SpecReplies, started with the history of earlier exchanges            *)

\* the history after n earlier exchanges, each a user message and its reply
RECURSIVE earlierExchanges(_)
earlierExchanges(n) ==
    IF n = 0 THEN <<>>
    ELSE <<[role |-> "user", content |-> <<0 - n, "message">>],
           [role |-> "assistant", content |-> <<0 - n, "completion">>]>>
         \o earlierExchanges(n - 1)

\* numbers of earlier exchanges: the history is two entries below
\* MAX_HISTORY, or full
EarlierCounts == {(MAX_HISTORY \div 2) - 1, MAX_HISTORY \div 2}

InitChat ==
    /\ impl \in {"server", "api"}
    /\ env \in [openaiKey : BOOLEAN, linkupKey : BOOLEAN, utcOffset : {0}]
    /\ env.linkupKey => env.openaiKey
    /\ \E n \in EarlierCounts :
         /\ chatHistory = earlierExchanges(n)
         /\ pushed = earlierExchanges(n)
    /\ header = StandardHeader
    /\ data = <<>>
    /\ grid = RoomyGrid
    /\ sheetId = 1
    /\ turns = 0
    /\ sharedTools = defaultTools
    /\ req = [p \in Procs |-> IdleReq]

SpecChat == InitChat /\ [][NextReplies]_vars

----------------------------------------------------------------------------
(* Specification of the manual parser alone: parseManualTrade and           *)
(* getMissingManualFields applied to messages made of the lines of the      *)
(* manual template, all eight or all but one                                *)

\* per required field, in the order of MissingLabels: the lines a message
\* may carry for it
ManualLines ==
    <<{"- Transaction Type: buy"},
      {"- Stock/ETF Symbol: SPUS"},
      {"- Quantity of Units: 10", "- Quantity of Units: 0"},
      {"- Amount per unit: 55.00", "* **Price per unit:** $55",
       "- Amount per unit: n/a"},
      {"- Date: 01-20-2026"},
      {"- Total Amount (before fees): 550.00", "- Total Amount (before fees): 0"},
      {"- Trading Fees: 0"},
      {"- Investment Account: Brokerage 1", "Account: Brokerage 1"}>>

\* s without its k-th element
Without(s, k) == SubSeq(s, 1, k - 1) \o SubSeq(s, k + 1, Len(s))

FullManualMessages ==
    {<<l1, l2, l3, l4, l5, l6, l7, l8>> :
        l1 \in ManualLines[1], l2 \in ManualLines[2], l3 \in ManualLines[3],
        l4 \in ManualLines[4], l5 \in ManualLines[5], l6 \in ManualLines[6],
        l7 \in ManualLines[7], l8 \in ManualLines[8]}

ManualMessages ==
    FullManualMessages
    \cup {Without(m, k) : m \in FullManualMessages, k \in 1..Len(ManualLines)}

InitManual ==
    /\ impl = "server"
    /\ env = [openaiKey |-> FALSE, linkupKey |-> FALSE, utcOffset |-> 0]
    /\ chatHistory = <<>>
    /\ pushed = <<>>
    /\ header = StandardHeader
    /\ data = <<>>
    /\ grid = RoomyGrid
    /\ sheetId = 1
    /\ turns = 0
    /\ sharedTools = defaultTools
    /\ req = [p \in Procs |-> IdleReq]

\* getMissingManualFields(parseManualTrade(message))
ParseManual(p) ==
    /\ turns < MaxCalls
    /\ turns' = turns + 1
    /\ \E message \in ManualMessages :
         req' = [req EXCEPT ![p] =
                    [IdleReq EXCEPT
                        !.pc = "parsed", !.turn = turns + 1, !.message = message,
                        !.missing = getMissingManualFields(parseManualTrade(message))]]
    /\ UNCHANGED <<storeVars, fixedVars, chatHistory, pushed, sharedTools>>

NextManual == \E p \in SeqProcs : ParseManual(p)

SpecManual == InitManual /\ [][NextManual]_vars

----------------------------------------------------------------------------
(* Specification with progress: the handlers of Spec over a sheet with a    *)
(* short header and no data rows, in a roomy or a tight grid, where every   *)
(* external call of a request in flight eventually returns or fails         *)

LiveGrids == {RoomyGrid, TightGrid(SparseHeader, <<>>)}

InitLive ==
    /\ impl \in {"server", "api"}
    /\ env \in [openaiKey : BOOLEAN, linkupKey : BOOLEAN, utcOffset : {0}]
    /\ env.linkupKey => env.openaiKey
    /\ chatHistory = <<>>
    /\ pushed = <<>>
    /\ header = SparseHeader
    /\ data = <<>>
    /\ grid \in LiveGrids
    /\ sheetId = 1
    /\ turns = 0
    /\ sharedTools = defaultTools
    /\ req = [p \in Procs |-> IdleReq]

\* the await a request in flight is suspended at settles
Settle == \E p \in SeqProcs : ~Idle(p) /\ Step(p)

\* how far each request has come: its position and the number of calls it
\* has made or seen settle (every step of a request adds one)
progress == [p \in Procs |-> <<req[p].pc, Len(req[p].calls)>>]

SpecLive == InitLive /\ [][Next]_vars /\ WF_progress(Settle)

----------------------------------------------------------------------------
(* Specification of the error translation alone: a store call of the ledger *)
(* client fails with a transport error of some shape                        *)

\* the store calls of appendTradeRow and readTrades, as formatSheetsError
\* names them
StoreActions ==
    {"reading headers", "reading trade rows", "reading sheet metadata",
     "resizing the trade log sheet", "appending a trade row"}

\* transport errors with and without a status, an API status and an API
\* message
ErrorShapes ==
    {TransportError(status, apiStatus, apiMessage, "Request failed") :
        status \in {0, 403, 404, 500},
        apiStatus \in {"", "PERMISSION_DENIED", "NOT_FOUND", "INTERNAL"},
        apiMessage \in {"", "Internal error encountered"}}

InitErrors ==
    /\ impl \in {"server", "api"}
    /\ env = [openaiKey |-> TRUE, linkupKey |-> FALSE, utcOffset |-> 0]
    /\ chatHistory = <<>>
    /\ pushed = <<>>
    /\ header = StandardHeader
    /\ data = <<>>
    /\ grid = RoomyGrid
    /\ sheetId = 1
    /\ turns = 0
    /\ sharedTools = defaultTools
    /\ req = [p \in Procs |-> IdleReq]

\* a store call of the ledger client, called directly, rejects with error:
\* the call's catch block throws what the client surfaces
StoreCallFails(p) ==
    /\ turns < MaxCalls
    /\ turns' = turns + 1
    /\ \E error \in ErrorShapes, action \in StoreActions :
         req' = [req EXCEPT ![p] =
                    throw([IdleReq EXCEPT !.turn = turns + 1, !.scope = "call",
                                          !.context = action, !.rows = <<error>>],
                          storeError(impl, error, action))]
    /\ UNCHANGED <<storeVars, fixedVars, chatHistory, pushed, sharedTools>>

NextErrors == \E p \in SeqProcs : StoreCallFails(p)

SpecErrors == InitErrors /\ [][NextErrors]_vars

----------------------------------------------------------------------------
(* Properties *)

Has(calls, e) == \E i \in 1..Len(calls) : calls[i] = e

Count(calls, e) == Cardinality({i \in 1..Len(calls) : calls[i] = e})

\* the request in slot p was answered
Answered(p) == req[p].pc = "done" /\ ~messageFacts[req[p].message].blank

\* the entries of the history's log that belong to turn t
EntriesOfTurn(t) == SelectSeq(pushed, LAMBDA e : e.content[1] = t)

\* interpretMessage returned an action for the request
ResolveSucceeded(r) == r.action # NoAction

\* interpretMessage threw an error that isLlmAuthError accepts
ResolveAuthFailed(r) == isLlmAuthError(r.resolveError)

Contexts == {"log_trade", "summarize", "unknown", "error"}

\* the calls of the Compose step: generateReply, the search and the completion
ComposeCalls == {"completion", "search"} \cup {"generateReply:" \o c : c \in Contexts}

\* the calls of the ledger client and of the store behind it
LedgerCalls ==
    {"appendTradeRow", "readTrades", "values.get:header", "values.get:rows",
     "spreadsheets.get", "batchUpdate", "values.update"}

FirstIndex(calls, e) == CHOOSE i \in 1..Len(calls) :
    calls[i] = e /\ \A j \in 1..(i - 1) : calls[j] # e

\* the calls made after the manual fallback started
SinceFallback(calls) ==
    SubSeq(calls, FirstIndex(calls, "parseManualTrade") + 1, Len(calls))

MissingOf(r) == getMissingManualFields(messageFacts[r.message].fields)

\* C1: while the server handles one request, appendTradeRow is invoked at
\* most once, whichever path the request takes: a trade written on the
\* LogTrade path is not written again when generateReply fails afterwards.
C1_AppendInvokedAtMostOnce ==
    \A p \in Procs :
        impl = "server" => Count(req[p].calls, "appendTradeRow") <= 1

\* C2: every request with a non-empty message that was answered has pushed
\* exactly two entries to the history, its user message and then the reply
\* it was answered with, whichever path produced the reply.
C2_EveryReplyRecorded ==
    \A p \in Procs :
        Answered(p) =>
            EntriesOfTurn(req[p].turn)
                = turnEntries(req[p], req[p].response.reply)

\* C3: after any sequence of pushHistory calls the history holds at most
\* MAX_HISTORY entries and equals the most recent min(n, MAX_HISTORY) of
\* the n entries pushed, in push order.
C3_HistoryIsRecentWindow ==
    LET n == Len(pushed)
        kept == Min(n, MAX_HISTORY)
    IN  /\ Len(chatHistory) <= MAX_HISTORY
        /\ Len(chatHistory) = kept
        /\ \A i \in 1..kept : chatHistory[i] = pushed[(n - kept) + i]

\* the history is full and entries were evicted more than once
C3_Evicted ==
    /\ Len(pushed) > MAX_HISTORY + 1
    /\ Len(chatHistory) = MAX_HISTORY
    /\ chatHistory[1] = pushed[(Len(pushed) - MAX_HISTORY) + 1]

\* C4: on the server the manual fallback (parseManualTrade and what follows
\* it) is entered when and only when interpretMessage failed with an
\* auth-style error; after interpretMessage succeeded nothing leads there.
C4_FallbackIffResolveAuthFailure ==
    \A p \in Procs :
        impl = "server" =>
            (Has(req[p].calls, "parseManualTrade") <=> ResolveAuthFailed(req[p]))

\* C5 as stated: after an auth-style failure of interpretMessage on a message
\* with all eight fields, the answered request made one append, carries the
\* manual confirmation with default tools, and made no Compose call since
\* the fallback started.
C5_FallbackAlwaysCommits ==
    \A p \in Procs :
        (/\ impl = "server"
         /\ ResolveAuthFailed(req[p])
         /\ MissingOf(req[p]) = <<>>
         /\ req[p].pc = "done") =>
            /\ Count(req[p].calls, "appendTradeRow") = 1
            /\ req[p].response.reply.kind = "manualTradeConfirmation"
            /\ req[p].response.tools = defaultTools
            /\ \A e \in Range(SinceFallback(req[p].calls)) : e \notin ComposeCalls

\* C5, amended: after an auth-style failure of interpretMessage on a message
\* with all eight fields the server starts exactly one append; if that
\* append returns, the request is answered 200 with the manual confirmation
\* of the parsed trade and default tools, after one cell write and no
\* Compose call since the fallback started; if the append fails, the answer
\* is a 500 that the outer catch composed through generateReply.
C5_FallbackCommitsWhenAppendReturns ==
    \A p \in Procs :
        (/\ impl = "server"
         /\ ResolveAuthFailed(req[p])
         /\ MissingOf(req[p]) = <<>>) =>
            LET r == req[p]
                trade == manualTrade(messageFacts[r.message].fields)
            IN  /\ Count(r.calls, "appendTradeRow") = 1
                /\ Has(r.calls, "appendTradeRow:done") =>
                      /\ r.pc = "done"
                      /\ r.response = [status |-> 200,
                                       reply |-> manualTradeConfirmation(trade),
                                       tools |-> defaultTools]
                      /\ Count(r.calls, "values.update") = 1
                      /\ \A e \in Range(SinceFallback(r.calls)) :
                             e \notin ComposeCalls
                /\ (r.pc = "done" /\ ~Has(r.calls, "appendTradeRow:done")) =>
                      /\ r.response.status = 500
                      /\ Has(r.calls, "generateReply:error")

\* a request answered by the fallback's commit
C5_Committed ==
    \E p \in Procs :
        /\ impl = "server"
        /\ ResolveAuthFailed(req[p])
        /\ MissingOf(req[p]) = <<>>
        /\ req[p].pc = "done"
        /\ Has(req[p].calls, "values.update")
        /\ req[p].response.status = 200

\* C6: after an auth-style failure of interpretMessage on a message that
\* lacks a required field, the server answers at once with status 503 and
\* the prompt whose Missing list is exactly getMissingManualFields of the
\* parsed message, and makes no call to the ledger client or the store.
C6_FallbackPrompt ==
    \A p \in Procs :
        (/\ impl = "server"
         /\ ResolveAuthFailed(req[p])
         /\ MissingOf(req[p]) # <<>>) =>
            /\ req[p].pc = "done"
            /\ req[p].response.status = 503
            /\ req[p].response.reply.kind = "manualTradePrompt"
            /\ req[p].response.reply.text = "Missing: "
            /\ req[p].response.reply.missing = MissingOf(req[p])
            /\ \A e \in Range(req[p].calls) : e \notin LedgerCalls

\* a 503 answer that lists some of the required fields, not all
C6_PromptedForSome ==
    \E p \in Procs :
        /\ impl = "server"
        /\ ResolveAuthFailed(req[p])
        /\ req[p].response.status = 503
        /\ Len(MissingOf(req[p])) \in 1..(Len(MissingLabels) - 1)

\* the request took the LogTrade or the Summarize branch
InLedgerBranch(r) ==
    \/ r.action.action = "log_trade" /\ r.action.trade # <<>>
    \/ r.action.action = "summarize"

\* C7: a request whose LogTrade or Summarize processing failed with an
\* error that is not auth-style is answered with status 500 and the default
\* tools, whatever its message text.
C7_FailureReplyHasDefaultTools ==
    \A p \in Procs :
        (/\ req[p].pc = "done"
         /\ InLedgerBranch(req[p])
         /\ req[p].errorMessage # ""
         /\ ~isLlmAuthError(req[p].errorMessage)) =>
            /\ req[p].response.status = 500
            /\ req[p].response.tools = defaultTools

Before(calls, a, i) == \E j \in 1..(i - 1) : calls[j] = a

\* C8: a request calls generateReply with a log_trade context only after its
\* appendTradeRow returned, and with a summarize context only after its
\* readTrades returned and summarizeTrades ran; both only after
\* interpretMessage, the first call of the request, returned an action.  So a
\* reply composed from a log_trade or a summarize context is sent only by a
\* request whose ledger step succeeded, and the manual confirmation only by
\* a request whose last call, the append, has just written its row.
C8_ComposeAfterLedgerStep ==
    \A p \in Procs :
        LET r == req[p]
            calls == r.calls
        IN  /\ calls # <<>> => calls[1] = "interpretMessage"
            /\ \A i \in 1..Len(calls) :
                  /\ calls[i] = "generateReply:log_trade" =>
                        /\ ResolveSucceeded(r)
                        /\ Before(calls, "values.update", i)
                        /\ calls[i - 1] = "appendTradeRow:done"
                  /\ calls[i] = "generateReply:summarize" =>
                        /\ ResolveSucceeded(r)
                        /\ Before(calls, "readTrades:done", i)
                        /\ calls[i - 1] = "summarizeTrades"
                  /\ calls[i] = "generateReply:unknown" => ResolveSucceeded(r)
            /\ (r.pc = "done" /\ r.response.reply.kind = "completion") =>
                  /\ r.response.reply.context = "log_trade" =>
                        Has(calls, "appendTradeRow:done")
                  /\ r.response.reply.context = "summarize" =>
                        Has(calls, "readTrades:done")
            /\ (r.pc = "done" /\ r.response.reply.kind = "manualTradeConfirmation") =>
                  /\ calls[Len(calls)] = "appendTradeRow:done"
                  /\ calls[Len(calls) - 1] = "values.update"

\* a request answered from a log_trade context after its row was written
C8_LoggedThenComposed ==
    \E p \in Procs :
        /\ req[p].pc = "done"
        /\ req[p].response.status = 200
        /\ req[p].response.reply = completionReply("log_trade")
        /\ Has(req[p].calls, "values.update")

\* the steps of appendTradeRow, with and without the resize
AppendSteps ==
    <<"values.get:header", "buildRow", "values.get:rows", "targetRow",
      "spreadsheets.get", "batchUpdate", "values.update", "appendTradeRow:done">>

AppendStepsNoResize == SelectSeq(AppendSteps, LAMBDA e : e # "batchUpdate")

IsPrefix(s, t) == Len(s) <= Len(t) /\ s = SubSeq(t, 1, Len(s))

\* the steps of the appendTradeRow call that starts at calls[i]
RECURSIVE stepsFrom(_, _)
stepsFrom(calls, i) ==
    IF i > Len(calls) \/ calls[i] \notin Range(AppendSteps) THEN <<>>
    ELSE <<calls[i]>> \o stepsFrom(calls, i + 1)

InOrder(steps) == IsPrefix(steps, AppendSteps) \/ IsPrefix(steps, AppendStepsNoResize)

\* the steps of the request's current appendTradeRow call
CurrentSteps(r) ==
    LET starts == {i \in 1..Len(r.calls) : r.calls[i] = "appendTradeRow"}
    IN  IF starts = {} THEN <<>>
        ELSE stepsFrom(r.calls, (CHOOSE i \in starts : \A j \in starts : j <= i) + 1)

AppendPcs == {"hdr", "rows", "props", "resize", "write"}

\* C9: every appendTradeRow call issues its steps in the order header read,
\* buildRow, row read, target row, capacity (metadata read and, if needed,
\* the resize), cell write; the cells of the sheet change only in the step
\* that completes the write, taken by a call all of whose earlier steps
\* succeeded; a step in which the call fails leaves the cells as they were.
C9_AppendOrder ==
    /\ [](\A p \in Procs : \A i \in 1..Len(req[p].calls) :
             req[p].calls[i] = "appendTradeRow" =>
                 InOrder(stepsFrom(req[p].calls, i + 1)))
    /\ [][data' # data =>
             \E p \in Procs :
                 /\ req[p].pc = "write"
                 /\ CurrentSteps(req[p]) \in
                        {SubSeq(AppendSteps, 1, 6), SubSeq(AppendStepsNoResize, 1, 5)}
                 /\ CurrentSteps(req'[p]) \in {AppendSteps, AppendStepsNoResize}]_vars
    /\ [][(\E p \in Procs :
               /\ req[p].pc \in AppendPcs
               /\ req'[p].pc \notin AppendPcs
               /\ CurrentSteps(req'[p]) \notin {AppendSteps, AppendStepsNoResize})
           => data' = data]_vars

\* a row written after the sheet was resized for it
C9_WroteAfterResize ==
    \E p \in Procs :
        /\ CurrentSteps(req[p]) = AppendSteps
        /\ data # <<>>
        /\ data[(req[p].targetRow - dataStartRow) + 1] = req[p].row

WhiteSpace == {" "}

\* every cell of the row is empty once its white space is removed
BlankAfterTrim(row) ==
    \A c \in 1..Len(row) : \A k \in 1..Len(row[c]) : Char(row[c], k) \in WhiteSpace

\* C10: the target row of an append is dataStartRow + i for the first index
\* i (from 0) of an existing row whose cells are all empty after trimming, a
\* row without cells included; without such a row it is dataStartRow plus
\* the number of existing rows.
C10_TargetRow ==
    \A p \in Procs :
        req[p].pc \in {"props", "resize", "write"} =>
            LET rows == req[p].rows
                blank == {i \in 1..Len(rows) : BlankAfterTrim(rows[i])}
            IN  IF blank = {}
                THEN req[p].targetRow = dataStartRow + Len(rows)
                ELSE /\ (req[p].targetRow - dataStartRow) + 1 \in blank
                     /\ \A i \in blank : (req[p].targetRow - dataStartRow) + 1 <= i

\* an append that targets a blank row above an existing trade
C10_ReusesBlankRow ==
    \E p \in Procs :
        /\ req[p].pc = "write"
        /\ \E i \in 1..Len(req[p].rows) :
              /\ req[p].targetRow = (dataStartRow + i) - 1
              /\ BlankAfterTrim(req[p].rows[i])
              /\ i < Len(req[p].rows)

\* the step in which the append of slot p completes its cell write
Wrote(p) ==
    /\ req[p].pc = "write"
    /\ CurrentSteps(req'[p]) \in {AppendSteps, AppendStepsNoResize}

RowAt(rows, i) == IF i \in 1..Len(rows) THEN rows[i] ELSE <<>>

NonBlankRows(rows) == {i \in 1..Len(rows) : ~BlankAfterTrim(rows[i])}

\* the write of slot p goes to a row that is blank, the first blank one, and
\* changes no other row
WritesFirstBlankRow(p) ==
    LET at == (req[p].targetRow - dataStartRow) + 1
    IN  /\ BlankAfterTrim(RowAt(data, at))
        /\ at <= Len(data) + 1
        /\ \A i \in 1..(at - 1) : ~BlankAfterTrim(RowAt(data, i))
        /\ \A i \in 1..Max(Len(data), Len(data')) :
              i # at => RowAt(data', i) = RowAt(data, i)

\* C11 as stated: with appends one at a time and rows cleared only between
\* them, every successful append writes into a row that is blank at write
\* time, the first blank row if there is one and else the row after the
\* last, changes no other row, and raises the number of non-blank rows by one.
C11_AppendFillsBlankRow ==
    [][\A p \in Procs :
          Wrote(p) =>
              /\ WritesFirstBlankRow(p)
              /\ Cardinality(NonBlankRows(data'))
                    = Cardinality(NonBlankRows(data)) + 1]_vars

\* C11, amended: as above, but the number of non-blank rows grows by one
\* only if the written row holds a non-empty cell; a row built from empty
\* values alone leaves the number as it was.
C11_AppendFillsBlankRowIfAny ==
    [][\A p \in Procs :
          Wrote(p) =>
              /\ WritesFirstBlankRow(p)
              /\ Cardinality(NonBlankRows(data'))
                    = Cardinality(NonBlankRows(data))
                      + (IF BlankAfterTrim(req[p].row) THEN 0 ELSE 1)]_vars

\* an append has filled a blank row above an existing trade
C11_ReusedRow ==
    \E p \in Procs :
        LET at == (req[p].targetRow - dataStartRow) + 1
        IN  /\ req[p].scope = "call"
            /\ CurrentSteps(req[p]) \in {AppendSteps, AppendStepsNoResize}
            /\ at < Len(data)
            /\ data[at] = req[p].row
            /\ ~BlankAfterTrim(data[at])

\* the append of the slot has returned to its caller
Appended(r) ==
    r.pc = "done" /\ CurrentSteps(r) \in {AppendSteps, AppendStepsNoResize}

\* C12: appends of two callers can interleave so that both compute the same
\* target row.  Whenever a call completes its write on the row that holds
\* the row of another call that computed the same target and has returned,
\* the earlier row is replaced and the number of non-blank rows does not
\* grow: both calls succeed and one trade is in the sheet.
C12_LaterWriteReplacesEarlier ==
    [][\A p, q \in Procs :
          LET at == (req[p].targetRow - dataStartRow) + 1
          IN  (/\ p # q
               /\ Wrote(p)
               /\ Appended(req[q])
               /\ req[q].targetRow = req[p].targetRow
               /\ ~BlankAfterTrim(req[q].row)
               /\ ~BlankAfterTrim(req[p].row)
               /\ Len(req[p].row) = Len(req[q].row)
               /\ RowAt(data, at) = req[q].row) =>
                  /\ req'[p].pc = "done"
                  /\ req'[p].errorMessage = ""
                  /\ RowAt(data', at) = req[p].row
                  /\ Cardinality(NonBlankRows(data'))
                        = Cardinality(NonBlankRows(data))]_vars

\* both calls have returned without an error, they wrote different rows to
\* the same target, and the sheet holds only the row of one of them
C12_LostUpdate ==
    \E p, q \in Procs :
        LET at == (req[p].targetRow - dataStartRow) + 1
        IN  /\ p # q
            /\ Appended(req[p]) /\ req[p].errorMessage = ""
            /\ Appended(req[q]) /\ req[q].errorMessage = ""
            /\ req[p].targetRow = req[q].targetRow
            /\ req[p].row # req[q].row
            /\ ~BlankAfterTrim(req[p].row) /\ ~BlankAfterTrim(req[q].row)
            /\ RowAt(data, at) = req[p].row
            /\ \A i \in 1..Len(data) : data[i] # req[q].row

\* the grid read by getSheetProperties already meets the minimums that
\* appendTradeRow passes to ensureSheetCapacity
MeetsMinimums(r) ==
    grid.rowCount >= r.targetRow /\ grid.columnCount >= Len(r.row)

\* ensureSheetCapacity has read the properties of the sheet and decides
DecidesCapacity(p) ==
    /\ req[p].pc = "props"
    /\ sheetId # 0
    /\ "spreadsheets.get" \in Range(CurrentSteps(req'[p]))

\* C13: when the grid already has at least minRows rows and minColumns
\* columns, ensureSheetCapacity issues no resize request and the grid keeps
\* its size.
C13_NoResizeWhenGridSuffices ==
    [][\A p \in Procs :
          (DecidesCapacity(p) /\ MeetsMinimums(req[p])) =>
              /\ req'[p].pc # "resize"
              /\ grid' = grid]_vars

\* C14: when the grid does not meet the minimums, ensureSheetCapacity issues
\* one resize request for max(currentRows, minRows + 10) rows and
\* max(currentColumns, minColumns) columns.
C14_ResizeAddsBuffer ==
    [][\A p \in Procs :
          (DecidesCapacity(p) /\ ~MeetsMinimums(req[p])) =>
              /\ req'[p].pc = "resize"
              /\ req'[p].wanted =
                    [rowCount |-> Max(grid.rowCount, req[p].targetRow + CapacityBuffer),
                     columnCount |-> Max(grid.columnCount, Len(req[p].row))]]_vars

\* buildRow has returned or thrown for the slot
Built(r) == r.pc = "built"

\* the configured header of each logical field, in the order of the spec
FieldHeaders ==
    <<columns.date, columns.transactionType, columns.symbol, columns.quantity,
      columns.amountPerUnit, columns.totalAmount, columns.tradingFees,
      columns.investmentAccount>>

\* the fields whose configured header is in the header index
ResolvedFields(r) == {f \in 1..Len(FieldHeaders) : FieldHeaders[f] \in DOMAIN r.headerIndex}

\* the zero-based column of a resolved field
ColumnOf(r, f) == r.headerIndex[FieldHeaders[f]]

ResolvedColumns(r) == {ColumnOf(r, f) : f \in ResolvedFields(r)}

MaxOf(S) == CHOOSE m \in S : \A k \in S : k <= m

IsNoMatchingHeaders(message) == IsPrefix("No matching headers found.", message)

SideOf(input) ==
    LET labels == {v \in Range(VALID_TRANSACTION_TYPES) :
                      toLowerCase(v) = toLowerCase(trim(input))}
    IN  IF labels = {} THEN trim(input) ELSE CHOOSE v \in labels : TRUE

HasCell(r, f) ==
    Built(r) /\ r.errorMessage = "" /\ f \in ResolvedFields(r)

CellOfField(r, f) == r.row[ColumnOf(r, f) + 1]

\* C18: the total amount cell of a built row is the string form of
\* quantity * amountPerUnit when the trade's totalAmount is unset, not finite
\* or 0, and the string form of the totalAmount itself otherwise.
C18_TotalDefaultsToProduct ==
    \A p \in Procs :
        HasCell(req[p], 6) =>
            LET trade == req[p].trade
            IN  CellOfField(req[p], 6) =
                  IF trade.totalAmount \in {Undefined, NotANumber, Infinity, NegativeInfinity, 0}
                  THEN jsString(jsTimes(trade.quantity, trade.amountPerUnit))
                  ELSE jsString(trade.totalAmount)

\* a row was built from a trade without a usable total and its total cell is
\* the product, and it differs from the string form of the trade's total
C18_DefaultedTotal ==
    \E p \in Procs :
        /\ HasCell(req[p], 6)
        /\ req[p].trade.totalAmount \in {Undefined, NotANumber, Infinity, 0}
        /\ CellOfField(req[p], 6) = "1920"
        /\ jsString(req[p].trade.totalAmount) # "1920"

\* the string form of the trade's own value of each logical field, side
\* normalized and total defaulted
OwnValue(trade, f) ==
    <<trade.date, SideOf(trade.transactionType), trade.symbol,
      jsString(trade.quantity), jsString(trade.amountPerUnit),
      jsString(IF isFinite(trade.totalAmount) /\ trade.totalAmount # 0
               THEN trade.totalAmount
               ELSE jsTimes(trade.quantity, trade.amountPerUnit)),
      jsString(trade.tradingFees), trade.investmentAccount>>[f]

\* C19: every cell of a built row that belongs to a resolved field holds the
\* string form of the trade's own value of that field; the account cell holds
\* the trade's investmentAccount.
C19_CellsCarryOwnValues ==
    \A p \in Procs :
        \A f \in 1..Len(FieldHeaders) :
            HasCell(req[p], f) => CellOfField(req[p], f) = OwnValue(req[p].trade, f)

CellAt(cells, c) == IF c \in 1..Len(cells) THEN cells[c] ELSE ""

\* the row the call writes has, under every column whose header text is the
\* configured name of a field, the entry of that field
PlacedUnderLiveHeaders(p) ==
    LET written == RowAt(data', (req[p].targetRow - dataStartRow) + 1)
        entries == rowEntries(req[p].trade)
    IN  \A f \in 1..Len(FieldHeaders) :
            \A c \in 1..Len(header) :
                trim(header[c]) = FieldHeaders[f] => CellAt(written, c) = entries[f][2]

\* readTrades returns its rows in this step
ReadReturns(p) ==
    /\ req[p].pc = "rd_rows"
    /\ req'[p].pc = "done"
    /\ req'[p].errorMessage = ""

\* the rows readTrades returns map the text of every non-empty header cell to
\* the cell below it
KeyedByLiveHeaders(p) ==
    LET trades == req'[p].trades
        named == {c \in 1..Len(header) : trim(header[c]) # ""}
    IN  /\ Len(trades) = Len(valuesGet(data))
        /\ \A i \in 1..Len(trades) :
              /\ DOMAIN trades[i] = {trim(header[c]) : c \in named}
              /\ \A c \in named : trades[i][trim(header[c])] = CellAt(data[i], c)

\* C20: the header index is read from the live header row in every
\* appendTradeRow and readTrades call: with columns exchanged between calls,
\* every append writes each resolved field under the column whose header is
\* now the configured name, and every read keys each cell by the header now
\* above it.
C20_HeaderIndexIsLive ==
    [][\A p \in Procs :
          /\ Wrote(p) => PlacedUnderLiveHeaders(p)
          /\ ReadReturns(p) => KeyedByLiveHeaders(p)]_vars

\* an append that was not the first call has returned after reading a header
\* row whose columns were exchanged: the symbol column is the first one, and
\* the row it wrote starts with the symbol
C20_AppendedAfterReorder ==
    \E p \in Procs :
        /\ Appended(req[p])
        /\ req[p].errorMessage = ""
        /\ req[p].turn > 1
        /\ columns.symbol \in DOMAIN req[p].headerIndex
        /\ req[p].headerIndex[columns.symbol] = 0
        /\ Len(header) >= 3
        /\ header[1] = columns.symbol
        /\ req[p].trade.symbol # ""
        /\ CellAt(RowAt(data, (req[p].targetRow - dataStartRow) + 1), 1) = req[p].trade.symbol

\* readTrades and summarizeTrades have run for the slot
Summarized(r) == r.pc = "summarized"

\* the non-empty trimmed texts of the header row
HeaderTexts == {trim(header[c]) : c \in 1..Len(header)} \ {""}

\* the column that carries a header text: the last one with that text
ColumnOfText(h) == MaxOf({c \in 1..Len(header) : trim(header[c]) = h})

\* C21: readTrades returns one mapping per row the store returns, in the
\* order of the rows; the keys of each mapping are the non-empty trimmed
\* header texts, and the value of a header is the text of the row's cell in
\* that header's column, "" when the row has no cell there.
C21_OneMappingPerRow ==
    \A p \in Procs :
        Summarized(req[p]) =>
            LET returned == valuesGet(data)
                trades == req[p].trades
            IN  /\ Len(trades) = Len(returned)
                /\ \A i \in 1..Len(trades) :
                      /\ DOMAIN trades[i] = HeaderTexts
                      /\ \A h \in HeaderTexts :
                            trades[i][h] = CellAt(returned[i], ColumnOfText(h))

\* a sheet was read whose second row has no cell and whose fourth row has
\* cells: the second mapping is all "", the fourth carries the symbol
C21_ReadAroundEmptyRow ==
    \E p \in Procs :
        /\ Summarized(req[p])
        /\ Len(req[p].trades) = 4
        /\ data[2] = <<>>
        /\ columns.symbol \in DOMAIN req[p].trades[4]
        /\ req[p].trades[2][columns.symbol] = ""
        /\ req[p].trades[4][columns.symbol] = "AAPL"

\* the write of the last appendTradeRow call of slot p1 is in the sheet, the
\* trade was a buy, and no other row that is read carries its symbol
AppendedBuy(trades) ==
    LET r == req["p1"]
        at == (r.targetRow - dataStartRow) + 1
    IN  /\ Appended(r)
        /\ r.errorMessage = ""
        /\ normalizeTransactionType(r.trade.transactionType) = "Buy"
        /\ RowAt(data, at) = r.row
        /\ \A i \in 1..Len(trades) :
              i # at => toUpperCase(cellOf(trades[i], columns.symbol))
                            # toUpperCase(r.trade.symbol)

\* the summary of the rows filtered by the symbol of the trade has a line for
\* the symbol, with the trade's quantity bought and nothing sold
SummarizesToTrade(trades) ==
    LET trade == req["p1"].trade
        summary == summarizeTrades(impl, trades, Query(trade.symbol, "", ""),
                                   env.utcOffset)
    IN  \E k \in 1..Len(summary.lines) :
            /\ summary.lines[k].symbol = toUpperCase(trade.symbol)
            /\ summary.lines[k].buyQty = trade.quantity
            /\ summary.lines[k].sellQty = 0

\* the header row carries the columns the summary reads the trade from
CarriesSummaryColumns ==
    {columns.symbol, columns.transactionType, columns.quantity} \subseteq HeaderTexts

\* C22 as stated: after a buy is appended to a ledger holding no other row
\* for its symbol, the rows read back and filtered by the symbol summarize to
\* the trade's quantity bought and 0 sold.
C22_RoundTrip ==
    [][(ReadReturns("p2") /\ AppendedBuy(req'["p2"].trades)) =>
           SummarizesToTrade(req'["p2"].trades)]_vars

\* C22 on sheets whose header row has the symbol, transaction type and
\* quantity columns: the round trip gives the trade's quantity bought and 0
\* sold.
C22_RoundTripWithColumns ==
    [][(/\ ReadReturns("p2")
        /\ AppendedBuy(req'["p2"].trades)
        /\ CarriesSummaryColumns) =>
           SummarizesToTrade(req'["p2"].trades)]_vars

\* a read has returned the row of a buy appended next to rows of another
\* symbol, and the summary for the symbol counts the trade's quantity
C22_ReadBack ==
    /\ req["p2"].pc = "done"
    /\ req["p2"].errorMessage = ""
    /\ req["p2"].turn > req["p1"].turn
    /\ Len(req["p2"].trades) >= 3
    /\ AppendedBuy(req["p2"].trades)
    /\ CarriesSummaryColumns
    /\ req["p1"].trade.quantity = 3
    /\ SummarizesToTrade(req["p2"].trades)

QueryOf(r) == r.action.summary[1]

\* the calendar day a date text names, as a number that keeps the order of
\* the days: [ok, day]
dayOf(text) ==
    LET read == parseDate(text, 0)
    IN  [ok |-> read.ok, day |-> read.time \div 24]

\* the row is to be kept: it is not fully blank, its symbol is that of the
\* query when the query names one, and when a date bound is set its date
\* parses and is no earlier than the start day and no later than the end day
ToBeKept(row, query) ==
    LET rowDay == dayOf(cellOf(row, columns.date))
        startDay == dayOf(query.startDate)
        endDay == dayOf(query.endDate)
    IN  /\ \E h \in DOMAIN row : trim(row[h]) # ""
        /\ query.symbol # "" =>
               toLowerCase(cellOf(row, columns.symbol)) = toLowerCase(query.symbol)
        /\ (query.startDate # "" \/ query.endDate # "") =>
               /\ rowDay.ok
               /\ startDay.ok => rowDay.day >= startDay.day
               /\ endDay.ok => rowDay.day <= endDay.day

\* C23: summarizeTrades keeps exactly the rows that are not fully blank,
\* match the symbol of the query up to case, and, when a date bound is set,
\* have a date that parses and lies within the bounds, both inclusive; with
\* no row kept it returns 'No trades found for that filter.'.
C23_KeepsRowsInFilter ==
    \A p \in Procs :
        Summarized(req[p]) =>
            LET summary == req[p].rows
                kept == SelectSeq(req[p].trades,
                                  LAMBDA row : ToBeKept(row, QueryOf(req[p])))
            IN  /\ summary.filtered = kept
                /\ kept = <<>> => summary.text = "No trades found for that filter."

\* the symbol summarizeTrades files a row under
GroupOf(row) == toUpperCase(cellOr(row, columns.symbol, "UNKNOWN"))

\* the row is a row of the side: its transaction type, trimmed, starts with
\* the name of the side, in any case
OnSide(row, side) ==
    startsWith(toLowerCase(trim(cellOf(row, columns.transactionType))), side)

QuantityIn(row) == parseMoney(cellOf(row, columns.quantity))

\* the parsed total of the row, or quantity * price per unit when the parsed
\* total is 0 (an unparseable total parses to 0)
ValueIn(row) ==
    IF parseMoney(cellOf(row, columns.totalAmount)) # 0
    THEN parseMoney(cellOf(row, columns.totalAmount))
    ELSE parseMoney(cellOf(row, columns.amountPerUnit)) * QuantityIn(row)

RECURSIVE SumSeq(_)
SumSeq(numbers) ==
    IF numbers = <<>> THEN 0 ELSE Head(numbers) + SumSeq(Tail(numbers))

SumOf(rows, Amount(_)) == SumSeq([i \in 1..Len(rows) |-> Amount(rows[i])])

\* the rows of a symbol on a side, among the filtered rows
SideRows(filtered, symbol, side) ==
    SelectSeq(filtered, LAMBDA row : GroupOf(row) = symbol /\ OnSide(row, side))

\* the hundredths a text of the form [-]digits.dd stands for
HundredthsOf(text) ==
    LET digits == DigitsValue(keepFrom(text, Digits, 1))
    IN  IF startsWith(text, "-") THEN 0 - digits ELSE digits

\* the text is value / quantity to two decimal places: no number of
\* hundredths is nearer to the quotient
IsAverage(text, value, quantity) ==
    LET off == (100 * value) - (HundredthsOf(text) * quantity)
        size(n) == IF n < 0 THEN 0 - n ELSE n
    IN  /\ Len(text) >= 4
        /\ Char(text, Len(text) - 2) = "."
        /\ 2 * size(off) <= size(quantity)

\* the quantities and values of every line are the sums over the rows of
\* its symbol and side
SumsPerSymbol(summary) ==
    \A k \in 1..Len(summary.lines) :
        LET line == summary.lines[k]
            bought == SideRows(summary.filtered, line.symbol, "buy")
            sold == SideRows(summary.filtered, line.symbol, "sell")
        IN  /\ line.buyQty = SumOf(bought, QuantityIn)
            /\ line.buyValue = SumOf(bought, ValueIn)
            /\ line.sellQty = SumOf(sold, QuantityIn)
            /\ line.sellValue = SumOf(sold, ValueIn)

\* C24 as stated: per symbol, quantities and values are the sums over the
\* buy and the sell rows, and the average of a side is value / quantity to
\* two decimal places, '0.00' when the quantity of the side is zero.
C24_AverageIsValueOverQuantity ==
    \A p \in Procs :
        Summarized(req[p]) =>
            /\ SumsPerSymbol(req[p].rows)
            /\ \A k \in 1..Len(req[p].rows.lines) :
                  LET line == req[p].rows.lines[k]
                  IN  /\ IF line.buyQty = 0 THEN line.buyAvg = "0.00"
                         ELSE IsAverage(line.buyAvg, line.buyValue, line.buyQty)
                      /\ IF line.sellQty = 0 THEN line.sellAvg = "0.00"
                         ELSE IsAverage(line.sellAvg, line.sellValue, line.sellQty)

\* C24 with the guard of the code: the average of a side is value / quantity
\* to two decimal places when the quantity of the side is positive, and
\* '0.00' when it is zero or negative.
C24_AverageOfPositiveQuantity ==
    \A p \in Procs :
        Summarized(req[p]) =>
            /\ SumsPerSymbol(req[p].rows)
            /\ \A k \in 1..Len(req[p].rows.lines) :
                  LET line == req[p].rows.lines[k]
                  IN  /\ IF line.buyQty <= 0 THEN line.buyAvg = "0.00"
                         ELSE IsAverage(line.buyAvg, line.buyValue, line.buyQty)
                      /\ IF line.sellQty <= 0 THEN line.sellAvg = "0.00"
                         ELSE IsAverage(line.sellAvg, line.sellValue, line.sellQty)

\* a summary of three buy rows of one symbol reports the sums of their
\* quantities and values and the average rounded to hundredths
C24_AveragedBuys ==
    \E p \in Procs :
        /\ Summarized(req[p])
        /\ req[p].rows.total = 3
        /\ \E k \in 1..Len(req[p].rows.lines) :
              LET line == req[p].rows.lines[k]
              IN  /\ line.buyQty = 7 /\ line.buyValue = 590
                  /\ line.buyAvg = "84.29" /\ line.sellAvg = "0.00"

\* the lines of a text: its parts between line feeds
LinesOf(text) ==
    LET feeds == {i \in 1..Len(text) : Char(text, i) = "\n"}
        feed(k) == IF k = 0 THEN 0
                   ELSE IF k > Cardinality(feeds) THEN Len(text) + 1
                   ELSE CHOOSE i \in feeds : Cardinality({j \in feeds : j < i}) = k - 1
    IN  [k \in 1..(Cardinality(feeds) + 1) |->
            SubSeq(text, feed(k - 1) + 1, feed(k) - 1)]

\* the index of the first row filed under the symbol
FirstRowOf(filtered, symbol) ==
    CHOOSE i \in 1..Len(filtered) :
        /\ GroupOf(filtered[i]) = symbol
        /\ \A j \in 1..(i - 1) : GroupOf(filtered[j]) # symbol

\* C25: the summary text is a header line with the number of filtered rows,
\* then one line per distinct uppercased symbol of the filtered rows, in the
\* order in which the symbols first occur in those rows.
C25_HeaderThenLinePerSymbol ==
    \A p \in Procs :
        (Summarized(req[p]) /\ req[p].rows.filtered # <<>>) =>
            LET filtered == req[p].rows.filtered
                symbols == {GroupOf(filtered[i]) : i \in 1..Len(filtered)}
                text == LinesOf(req[p].rows.text)
                SymbolOf(k) == CHOOSE sym \in symbols : startsWith(text[k + 1], sym \o ": buy ")
            IN  /\ text[1] = "Total trades: " \o ToString(Len(filtered)) \o "."
                /\ Len(text) = 1 + Cardinality(symbols)
                /\ \A k \in 1..Cardinality(symbols) :
                      \E sym \in symbols : startsWith(text[k + 1], sym \o ": buy ")
                /\ \A j, k \in 1..Cardinality(symbols) :
                      j < k => FirstRowOf(filtered, SymbolOf(j))
                                  < FirstRowOf(filtered, SymbolOf(k))

\* a summary of rows of two symbols whose first-seen order is not the
\* alphabetical one: MSFT, then AAPL
C25_TwoSymbolsInSheetOrder ==
    \E p \in Procs :
        /\ Summarized(req[p])
        /\ req[p].rows.total = 3
        /\ Len(LinesOf(req[p].rows.text)) = 3
        /\ startsWith(LinesOf(req[p].rows.text)[2], "MSFT: buy 10 ")
        /\ startsWith(LinesOf(req[p].rows.text)[3], "AAPL: buy 1 ")

----------------------------------------------------------------------------
(* interpretMessage and the completion text *)

Interpreted(p) ==
    /\ req[p].pc = "done"
    /\ Has(req[p].calls, "interpretMessage")

TextReturned(p) == Interpreted(p) /\ Has(req[p].calls, "completion")

\* C26: interpretMessage never fails because of the completion text: for
\* every text the completion call returns it returns an action of the
\* schema, the action "unknown" with no trade and no summary when the text
\* has no braces, is not JSON or fails the response schema, and what the
\* text says when the schema accepts it; it fails only when the completion
\* key is missing or the completion call itself fails
C26_TextNeverFailsInterpret ==
    \A p \in Procs :
        /\ TextReturned(p) =>
            /\ req[p].resolveError = ""
            /\ req[p].action.action \in {"log_trade", "summarize", "unknown"}
            /\ req[p].completion \in BrokenTexts =>
                   req[p].action = Resolved("unknown", <<>>, <<>>)
            /\ \A sound \in SoundTexts :
                   req[p].completion = sound[1] => req[p].action = sound[2]
        /\ Interpreted(p) /\ req[p].resolveError # "" =>
            \/ ~env.openaiKey /\ req[p].resolveError = ErrMissingKey
            \/ Has(req[p].calls, "completion:failed")

\* a text that is not JSON was returned and interpretMessage answered
\* "unknown"
C26_UnparseableTextIsUnknown ==
    \E p \in Procs :
        /\ TextReturned(p)
        /\ req[p].completion = "{\"action\": \"summarize\",}"
        /\ req[p].action.action = "unknown"
        /\ req[p].resolveError = ""

----------------------------------------------------------------------------
(* generateReply: the search step and the tool usage *)

\* generateReply of slot p is past its search step
SearchSettled(p) ==
    /\ req[p].search # NoSearch
    /\ req[p].pc \in {"complete", "done"}

\* slot p answered with the reply and the tools generateReply returned
RepliedByCompletion(p) ==
    /\ req[p].pc = "done"
    /\ req[p].response.reply.kind = "completion"

\* the search step of slot p was entered (the heuristic matched the message)
Triggered(p) == shouldUseWebSearch(req[p].message)

ToolUsage(status, results) == [status |-> status, results |-> results]

\* the tool usage the outcome of a search step stands for
UsageOf(search) ==
    IF search.kind = "not_triggered" THEN ToolUsage("skipped", 0)
    ELSE IF search.kind = "not_configured" THEN ToolUsage("not_configured", 0)
    ELSE IF search.kind \in {"threw", "not_ok", "undecodable"} THEN ToolUsage("error", 0)
    ELSE IF search.results = 0 THEN ToolUsage("attempted", 0)
    ELSE ToolUsage("used", search.results)

\* C27: the tool usage of generateReply is determined by the search outcome:
\* heuristic not triggered -> (skipped, 0); triggered without a search key ->
\* (not_configured, 0); transport failure, non-success response or
\* undecodable body -> (error, 0); success with no results -> (attempted, 0);
\* success with n > 0 results -> (used, n); the reply prompt carries the
\* search payload in the last case only; and the reply is returned with
\* that usage
C27_UsageFollowsSearchOutcome ==
    \A p \in Procs :
        /\ SearchSettled(p) =>
            /\ req[p].search.kind = "not_triggered" <=> ~Triggered(p)
            /\ req[p].search.kind = "not_configured" <=> Triggered(p) /\ ~env.linkupKey
            /\ req[p].tools = UsageOf(req[p].search)
            /\ req[p].webSearchPayload =
                   IF req[p].search.kind = "ok" /\ req[p].search.results > 0
                   THEN <<req[p].search.results>> ELSE <<>>
        /\ RepliedByCompletion(p) => req[p].response.tools = UsageOf(req[p].search)

\* a reply was returned with (used, 2) and the payload was in its prompt
C27_RepliedWithResults ==
    \E p \in Procs :
        /\ RepliedByCompletion(p)
        /\ req[p].search = SearchOutcome("ok", 2)
        /\ req[p].response.tools = ToolUsage("used", 2)
        /\ req[p].webSearchPayload = <<2>>

FailedSearches == {"not_configured", "threw", "not_ok", "undecodable"}

Last(calls) == calls[Len(calls)]

\* the latest generateReply call of calls went on to its completion call
CompletionIssued(calls) ==
    \E i, j \in 1..Len(calls) :
        /\ i < j
        /\ calls[i] \in {"generateReply:" \o c : c \in Contexts}
        /\ calls[j] = "completion"
        /\ \A k \in (i + 1)..Len(calls) : calls[k] \in {"search", "completion", "parseManualTrade"}

\* C28: a search failure never blocks the reply: when the search key is
\* missing, the transport throws, the status is not a success or the body
\* cannot be decoded, generateReply goes on to its completion call with the
\* failure as a tool status, and the request ends only after that call
C28_SearchFailureNeverBlocks ==
    \A p \in Procs :
        req[p].search.kind \in FailedSearches =>
            /\ req[p].pc \in {"complete", "done"}
            /\ req[p].tools.status \in {"not_configured", "error"}
            /\ req[p].errorMessage # ErrFetch
            /\ req[p].pc = "done" => CompletionIssued(req[p].calls)

\* the body of the search response could not be decoded and the reply was
\* returned all the same, with status error
C28_RepliedAfterUndecodableBody ==
    \E p \in Procs :
        /\ RepliedByCompletion(p)
        /\ req[p].search.kind = "undecodable"
        /\ req[p].response.status = 200
        /\ req[p].response.tools = ToolUsage("error", 0)

\* C29: tool usage is per reply and never shared: in every interleaving of
\* requests the module-level defaultTools object stays (skipped, 0), every
\* reply of generateReply carries the usage of its own request's search
\* step, every other response carries defaultTools or no tools at all, and
\* no request's tools object is the module-level one
C29_ToolsPerReply ==
    /\ sharedTools = ToolUsage("skipped", 0)
    /\ \A p \in Procs :
        /\ req[p].toolsRef = "own"
        /\ req[p].pc = "done" =>
               req[p].response.tools \in
                   IF RepliedByCompletion(p) THEN {UsageOf(req[p].search)}
                   ELSE {ToolUsage("skipped", 0), NoTools}

\* two requests in flight at once were answered with different usages
C29_TwoRepliesTwoUsages ==
    /\ RepliedByCompletion("p1")
    /\ RepliedByCompletion("p2")
    /\ req["p1"].response.tools = ToolUsage("used", 2)
    /\ req["p2"].response.tools = ToolUsage("error", 0)
    /\ req["p2"].turn = 2
    /\ Last(pushed).content[1] = 1

----------------------------------------------------------------------------
(* The manual parser *)

\* the message carries the line of the k-th required field
Carries(message, k) == \E i \in 1..Len(message) : message[i] \in ManualLines[k]

\* the labels of the required fields whose line the message lacks
LabelsNotCarried(message) ==
    SelectByFlags(MissingLabels, [k \in 1..Len(MissingLabels) |-> ~Carries(message, k)])

\* C30: getMissingManualFields(parseManualTrade(message)) is empty for a
\* message that carries all eight labelled lines, and for a message that
\* lacks one of them it is exactly the label of that line
C30_MissingIsTheRemovedLine ==
    \A p \in Procs :
        req[p].pc = "parsed" => req[p].missing = LabelsNotCarried(req[p].message)

\* the statuses a ToolUsage value can carry
ToolStatuses == {"skipped", "not_configured", "error", "attempted", "used"}

\* a value of shape ToolUsage
IsToolUsage(tools) == tools.status \in ToolStatuses /\ tools.results \in Nat

\* a response was sent for the request in slot p
Responded(p) == req[p].response.status # 0

\* C31: every response of the chat endpoint, whatever its path and status
\* (200, 400, 500, 503), carries a reply and a tools value of shape
\* ToolUsage.
C31_ResponseCarriesReplyAndTools ==
    \A p \in Procs :
        Responded(p) =>
            /\ req[p].response.status \in {200, 400, 500, 503}
            /\ req[p].response.reply.kind # ""
            /\ IsToolUsage(req[p].response.tools)

\* the message holds nothing but white space
OnlyWhiteSpace(message) ==
    \A i \in 1..Len(message) :
        \A k \in 1..Len(message[i]) : Char(message[i], k) \in WhiteSpace

\* C32: a request whose message is empty or holds only white space is
\* answered at once with status 400 and the reply "Message is required.";
\* it makes no completion, search or ledger call, and the step that answers
\* it leaves the chat history and the sheet as they were.
C32_BlankMessageIsRefused ==
    [][\A p \in Procs :
          (req'[p].turn # req[p].turn /\ OnlyWhiteSpace(req'[p].message)) =>
              /\ req'[p].pc = "done"
              /\ req'[p].response.status = 400
              /\ req'[p].response.reply = [kind |-> "Message is required."]
              /\ req'[p].calls = <<>>
              /\ chatHistory' = chatHistory
              /\ pushed' = pushed
              /\ UNCHANGED storeVars]_vars

\* a blank message was refused while the history held an earlier exchange
C32_RefusedAfterAnExchange ==
    \E p \in Procs :
        /\ req[p].message = MsgBlank
        /\ req[p].response.status = 400
        /\ req[p].calls = <<>>
        /\ Len(chatHistory) = 2

\* the three kinds of error the ledger client is to surface
IsPermissionDenied(text) == startsWith(text, "Google Sheets permission denied while ")

IsSheetNotFound(text) == startsWith(text, "Google Sheets spreadsheet not found while ")

IsBackingStoreError(text) == startsWith(text, "Google Sheets error while ")

\* the text tells the reader what to do
HasHint(text) ==
    \/ Includes(text, "Share the sheet with the service account")
    \/ Includes(text, "Check GOOGLE_SHEETS_SPREADSHEET_ID")

\* the store call in slot p failed and the client surfaced an error
StoreCallFailed(p) == req[p].pc = "done" /\ req[p].rows # <<>>

\* C33: whatever the shape of the transport error a store call fails with
\* (status 403, status 404, an API message without those statuses, or
\* neither), the ledger client surfaces a permission-denied, sheet-not-found
\* or backing-store error that names the spreadsheet and carries a hint.
C33_StoreErrorsAreTranslated ==
    \A p \in Procs :
        StoreCallFailed(p) =>
            /\ \/ IsPermissionDenied(req[p].errorMessage)
               \/ IsSheetNotFound(req[p].errorMessage)
               \/ IsBackingStoreError(req[p].errorMessage)
            /\ Includes(req[p].errorMessage, spreadsheetId)
            /\ HasHint(req[p].errorMessage)

\* the fields getMissingManualFields tests, in the order of MissingLabels
MissingFields ==
    <<"transactionType", "symbol", "quantity", "amountPerUnit", "date",
      "totalAmount", "tradingFees", "investmentAccount">>

\* C34: getMissingManualFields reports a field exactly when no line of the
\* message supplied it, whatever value the line gave, a quantity, amount per
\* unit or total amount of 0 (or of a text that parses to 0) included.
C34_MissingIffNotSupplied ==
    \A p \in Procs :
        req[p].pc = "parsed" =>
            \A k \in 1..Len(MissingLabels) :
                MissingLabels[k] \in Range(req[p].missing)
                    <=> parseManualTrade(req[p].message)[MissingFields[k]] = <<>>

\* C35: the capacity step fails with the sheet-not-found error only when the
\* store's metadata has no sheet titled sheetName.  The store of the model
\* always holds that sheet with its grid properties (sheetId is its id, 0
\* included), so no call ends with the sheet-not-found error: every
\* getSheetProperties that gets the metadata returns the sheet's dimensions.
C35_SheetFoundWhateverItsId ==
    \A p \in Procs :
        Has(req[p].calls, "spreadsheets.get") =>
            req[p].errorMessage # ErrSheetNotFound

\* C36: an appendTradeRow call that reaches its row write finds a grid of at
\* least targetRow rows and row.length columns unless another writer changed
\* the sheet meanwhile, and no resize of ensureSheetCapacity lowers the row
\* count or the column count of the grid.
C36_CapacityNeverLowered ==
    [][/\ grid'.rowCount >= grid.rowCount
       /\ grid'.columnCount >= grid.columnCount
       /\ \A p \in Procs :
             (/\ req'[p].pc = "write"
              /\ req[p].pc # "write"
              /\ \A q \in Procs \ {p} : Idle(q)) => InGrid(req[p])']_vars

\* C37: in the tool usage generateReply returns, results > 0 exactly when
\* the status is "used", and the status is "skipped" exactly when the
\* message does not match the search keywords, in which case the request
\* made no call of the search service.
C37_UsedIffResultsSkippedIffNoMatch ==
    \A p \in Procs :
        RepliedByCompletion(p) =>
            /\ req[p].response.tools.results > 0
                   <=> req[p].response.tools.status = "used"
            /\ req[p].response.tools.status = "skipped" <=> ~Triggered(p)
            /\ ~Triggered(p) => ~Has(req[p].calls, "search")

\* one reply was returned with the search skipped, another after a search
\* that found nothing
C37_SkippedAndAttempted ==
    /\ RepliedByCompletion("p1")
    /\ ~Triggered("p1")
    /\ req["p1"].response.tools = ToolUsage("skipped", 0)
    /\ RepliedByCompletion("p2")
    /\ Has(req["p2"].calls, "search")
    /\ req["p2"].response.tools = ToolUsage("attempted", 0)

\* the entries are pairs: a user entry, then the assistant entry of the
\* same request
InPairs(entries) ==
    /\ Len(entries) % 2 = 0
    /\ \A i \in 1..Len(entries) :
          IF i % 2 = 1
          THEN /\ entries[i].role = "user"
               /\ entries[i + 1].content[1] = entries[i].content[1]
          ELSE entries[i].role = "assistant"

\* C38: with requests in flight at once, interleaved at their external
\* calls, the history never holds more than MAX_HISTORY entries; every user
\* entry pushed is followed at once by the reply of the same request; and
\* the history has even length and alternates user, assistant from a user
\* entry on.
C38_HistoryKeepsPairs ==
    /\ Len(chatHistory) <= MAX_HISTORY
    /\ InPairs(pushed)
    /\ InPairs(chatHistory)

\* two requests overlapped (the later one was answered first) on a full
\* history, and their pairs replaced the two oldest exchanges
C38_OverlappedOnFullHistory ==
    /\ Len(pushed) = MAX_HISTORY + 4
    /\ Len(chatHistory) = MAX_HISTORY
    /\ chatHistory[MAX_HISTORY - 3].content[1] > chatHistory[MAX_HISTORY - 1].content[1]
    /\ chatHistory[MAX_HISTORY - 1].content[1] > 0

\* interpretMessage returned "unknown", or "log_trade" without a trade
ResolvedUnknown(r) ==
    \/ r.action.action = "unknown"
    \/ r.action.action = "log_trade" /\ r.action.trade = <<>>

\* C39: a request resolved to "unknown", or to "log_trade" with a null or
\* absent trade, makes no call of the ledger client; right after the
\* resolution it calls generateReply with the context {action: "unknown"},
\* and the reply generateReply returns is sent with status 200.
C39_UnknownTouchesNoLedger ==
    \A p \in Procs :
        ResolvedUnknown(req[p]) =>
            /\ \A i \in 1..Len(req[p].calls) : req[p].calls[i] \notin LedgerCalls
            /\ SubSeq(req[p].calls, 1, 3)
                   = <<"interpretMessage", "completion", "generateReply:unknown">>
            /\ (req[p].pc = "done" /\ req[p].errorMessage = "") =>
                   /\ req[p].response.status = 200
                   /\ req[p].response.reply = completionReply("unknown")

\* C40: provided every external call eventually returns or fails, every
\* request received is eventually answered with a response, whichever path
\* it takes, failures inside the manual-fallback branches and inside the
\* reply generation of the catch block included.
C40_EveryRequestAnswered ==
    \A p \in Procs : ~Idle(p) ~> (req[p].pc = "done" /\ Responded(p))

============================================================================
